---- MODULE Spec2Model ----
(***************************************************************************)
(* Geodetic grid computation of GOES-DR (package goesdr).                  *)
(*                                                                         *)
(* Floating-point numbers are modelled as fixed-point numbers: a finite    *)
(* value is an integer count of 1/Scale units, and the IEEE special values *)
(* NaN, +Inf and -Inf are kept apart from the finite ones.  Angles are in  *)
(* radians, lengths in equatorial earth radii, latitudes and longitudes in *)
(* degrees; all three use the same Scale.  Arithmetic is sign-symmetric    *)
(* (round to nearest, ties away from zero) as IEEE arithmetic is.          *)
(***************************************************************************)
EXTENDS Integers, Sequences, FiniteSets, TLC

(***************************************************************************)
(* Bounds of the model.                                                    *)
(***************************************************************************)
MaxLen == 3

MaxStep == 2

(***************************************************************************)
(* float64 values.                                                         *)
(***************************************************************************)
Scale == 1000

NaN == [k |-> "nan", v |-> 0]

PosInf == [k |-> "inf", v |-> 1]

NegInf == [k |-> "inf", v |-> -1]

Fin(n) == [k |-> "fin", v |-> n]

IsNaN(a) == a.k = "nan"

IsInf(a) == a.k = "inf"

IsFin(a) == a.k = "fin"

Abs(n) == IF n < 0 THEN -n ELSE n

Sgn(n) == IF n < 0 THEN -1 ELSE IF n > 0 THEN 1 ELSE 0

\* n / d rounded to the nearest integer, ties away from zero (d # 0).
RDiv(n, d) == Sgn(n) * Sgn(d) * ((2 * Abs(n) + Abs(d)) \div (2 * Abs(d)))

InfOf(s) == IF s < 0 THEN NegInf ELSE PosInf

\* The element of a one-element set.  An operation on floats is written
\* Only({result(x, y) : x \in {a}, y \in {b}}): its operands are values,
\* computed once before the operation runs, as the arguments of a numpy
\* function are.
Only(S) == CHOOSE r \in S : TRUE

FNeg(a) ==
    Only({IF IsNaN(x) THEN NaN ELSE [k |-> x.k, v |-> -x.v] : x \in {a}})

FAdd(a, b) ==
    Only({IF IsNaN(x) \/ IsNaN(y) THEN NaN
          ELSE IF IsInf(x) /\ IsInf(y) THEN (IF x.v = y.v THEN x ELSE NaN)
          ELSE IF IsInf(x) THEN x
          ELSE IF IsInf(y) THEN y
          ELSE Fin(x.v + y.v) : x \in {a}, y \in {b}})

FSub(a, b) == FAdd(a, FNeg(b))

FMul(a, b) ==
    Only({IF IsNaN(x) \/ IsNaN(y) THEN NaN
          ELSE IF IsInf(x) \/ IsInf(y)
               THEN (IF x.v = 0 \/ y.v = 0 THEN NaN
                     ELSE InfOf(Sgn(x.v) * Sgn(y.v)))
          ELSE Fin(RDiv(x.v * y.v, Scale)) : x \in {a}, y \in {b}})

FDiv(a, b) ==
    Only({IF IsNaN(x) \/ IsNaN(y) THEN NaN
          ELSE IF IsInf(x) THEN (IF IsInf(y) THEN NaN
                                 ELSE InfOf(x.v * (IF y.v < 0 THEN -1 ELSE 1)))
          ELSE IF IsInf(y) THEN Fin(0)
          ELSE IF y.v = 0 THEN (IF x.v = 0 THEN NaN ELSE InfOf(x.v))
          ELSE Fin(RDiv(x.v * Scale, y.v)) : x \in {a}, y \in {b}})

\* Comparisons: every comparison with NaN is false.
FLt(a, b) ==
    Only({/\ ~IsNaN(x) /\ ~IsNaN(y)
          /\ IF IsInf(x) THEN x.v < 0 /\ ~(IsInf(y) /\ y.v < 0)
             ELSE IF IsInf(y) THEN y.v > 0
             ELSE x.v < y.v : x \in {a}, y \in {b}})

FLe(a, b) ==
    Only({~IsNaN(x) /\ ~IsNaN(y) /\ ~FLt(y, x) : x \in {a}, y \in {b}})

FGe(a, b) == FLe(b, a)

FGt(a, b) == FLt(b, a)

RECURSIVE ISqrtIn(_, _, _)
\* The largest r in lo..hi with r * r <= n (bisection).
ISqrtIn(n, lo, hi) ==
    IF lo >= hi THEN lo
    ELSE Only({IF mid * mid <= n THEN ISqrtIn(n, mid, hi)
               ELSE ISqrtIn(n, lo, mid - 1) : mid \in {(lo + hi + 1) \div 2}})

ISqrt(n) == Only({ISqrtIn(m, 0, 46340) : m \in {n}})

\* The square root of the magnitude, whatever the sign
FSqrt_Magnitude(a) ==
    Only({IF IsNaN(x) THEN NaN
          ELSE IF IsInf(x) THEN PosInf
          ELSE Fin(ISqrt(Abs(x.v) * Scale)) : x \in {a}})

\* numpy.sqrt: NaN for a negative argument (no exception under errstate).
FSqrt(a) ==
    Only({IF IsNaN(x) THEN NaN
          ELSE IF IsInf(x) THEN (IF x.v > 0 THEN PosInf ELSE NaN)
          ELSE IF x.v < 0 THEN NaN
          ELSE Fin(ISqrt(x.v * Scale)) : x \in {a}})

\* numpy.sin, numpy.cos: Taylor polynomials (odd, even) in fixed point.
FSin(a) ==
    Only({IF ~IsFin(x) THEN NaN
          ELSE Fin(x.v - RDiv(x.v * x.v * x.v, 6 * Scale * Scale)) : x \in {a}})

FCos(a) ==
    Only({IF ~IsFin(x) THEN NaN
          ELSE LET t2 == RDiv(x.v * x.v, Scale)
               IN  Fin(Scale - RDiv(t2, 2) + RDiv(t2 * t2, 24 * Scale)) : x \in {a}})

HalfPi == 1571

\* arctan on [0, 1]: x * (pi/4 + 0.273 * (1 - x)), in fixed point.
ArcTanUnit(n) == RDiv(n * (1058 - RDiv(273 * n, Scale)), Scale)

\* numpy.arctan: odd, arctan(0) = 0, arctan(+-Inf) = +-pi/2.
FArcTan(a) ==
    Only({IF IsNaN(x) THEN NaN
          ELSE IF IsInf(x) THEN Fin(x.v * HalfPi)
          ELSE IF Abs(x.v) <= Scale THEN Fin(Sgn(x.v) * ArcTanUnit(Abs(x.v)))
          ELSE Fin(Sgn(x.v) * (HalfPi - ArcTanUnit(RDiv(Scale * Scale, Abs(x.v)))))
          : x \in {a}})

DegPerRad == 57296

\* numpy.rad2deg
FRad2Deg(a) ==
    Only({IF ~IsFin(x) THEN x ELSE Fin(RDiv(x.v * DegPerRad, Scale)) : x \in {a}})

Float32Step == 4

\* ndarray.astype(float32): the narrowing keeps NaN and the infinities and
\* rounds a finite value to the nearest value of the coarser format.
AsFloat32(a) ==
    Only({IF ~IsFin(x) THEN x ELSE Fin(RDiv(x.v, Float32Step) * Float32Step)
          : x \in {a}})

(***************************************************************************)
(* 1-D and 2-D arrays: a vector is a sequence of values, a grid a sequence *)
(* of rows.                                                                *)
(***************************************************************************)
Reverse(s) == [i \in 1..Len(s) |-> s[Len(s) + 1 - i]]

\* s[::step] for step >= 1
Stride(s, step) ==
    [i \in 1..((Len(s) + step - 1) \div step) |-> s[step * (i - 1) + 1]]

\* s[from:] with a 0-based index 0 <= from <= len(s)
SliceFrom(s, from) == [i \in 1..(Len(s) - from) |-> s[from + i]]

Rows(g) == Len(g)

Cols(g) == IF Len(g) = 0 THEN 0 ELSE Len(g[1])

Shape(g) == <<Rows(g), Cols(g)>>

MapVec(Op(_), s) == [i \in 1..Len(s) |-> Op(s[i])]

MapGrid(Op(_), g) == [i \in 1..Len(g) |-> [j \in 1..Len(g[i]) |-> Op(g[i][j])]]

\* numpy.meshgrid(a, b): two grids of shape (len(b), len(a))
MeshX(a, b) == [i \in 1..Len(b) |-> [j \in 1..Len(a) |-> a[j]]]

MeshY(a, b) == [i \in 1..Len(b) |-> [j \in 1..Len(a) |-> b[i]]]

(***************************************************************************)
(* grid/helper.py                                                          *)
(***************************************************************************)
\* make_common_mask: a cell that is NaN in either grid is NaN in both.
MaskCell(lat, lon) ==
    LET is_nan == IsNaN(lat) \/ IsNaN(lon)
    IN  <<IF is_nan THEN NaN ELSE lat, IF is_nan THEN NaN ELSE lon>>

\* make_consistent with each grid masked by its own range test only
ConsistentCell_OwnRange(abi_lon, abi_lat) ==
    LET valid_lon == FGe(abi_lon, Fin(-360 * Scale)) /\ FLe(abi_lon, Fin(360 * Scale))
        valid_lat == FGe(abi_lat, Fin(-90 * Scale)) /\ FLe(abi_lat, Fin(90 * Scale))
        lon1 == IF valid_lon THEN abi_lon ELSE NaN
        lat1 == IF valid_lat THEN abi_lat ELSE NaN
        lon2 == IF FGe(lon1, Fin(180 * Scale))
                THEN FSub(lon1, Fin(360 * Scale)) ELSE lon1
        lon3 == IF FLt(lon2, Fin(-180 * Scale))
                THEN FAdd(lon2, Fin(360 * Scale)) ELSE lon2
    IN  <<lon3, lat1>>

\* make_consistent adding 360 to the longitudes of at most -180
ConsistentCell_WrapTwice(abi_lon, abi_lat) ==
    LET valid_lon == FGe(abi_lon, Fin(-360 * Scale)) /\ FLe(abi_lon, Fin(360 * Scale))
        valid_lat == FGe(abi_lat, Fin(-90 * Scale)) /\ FLe(abi_lat, Fin(90 * Scale))
        is_valid  == valid_lon /\ valid_lat
        lon1 == IF is_valid THEN abi_lon ELSE NaN
        lat1 == IF is_valid THEN abi_lat ELSE NaN
        lon2 == IF FGe(lon1, Fin(180 * Scale))
                THEN FSub(lon1, Fin(360 * Scale)) ELSE lon1
        lon3 == IF FLe(lon2, Fin(-180 * Scale))
                THEN FAdd(lon2, Fin(360 * Scale)) ELSE lon2
    IN  <<lon3, lat1>>

\* make_consistent wrapping only the longitudes above 180
ConsistentCell_WrapAbove(abi_lon, abi_lat) ==
    LET valid_lon == FGe(abi_lon, Fin(-360 * Scale)) /\ FLe(abi_lon, Fin(360 * Scale))
        valid_lat == FGe(abi_lat, Fin(-90 * Scale)) /\ FLe(abi_lat, Fin(90 * Scale))
        is_valid  == valid_lon /\ valid_lat
        lon1 == IF is_valid THEN abi_lon ELSE NaN
        lat1 == IF is_valid THEN abi_lat ELSE NaN
        lon2 == IF FGt(lon1, Fin(180 * Scale))
                THEN FSub(lon1, Fin(360 * Scale)) ELSE lon1
        lon3 == IF FLt(lon2, Fin(-180 * Scale))
                THEN FAdd(lon2, Fin(360 * Scale)) ELSE lon2
    IN  <<lon3, lat1>>

\* make_consistent with the limits of the range tests excluded
ConsistentCell_ExclusiveBounds(abi_lon, abi_lat) ==
    LET valid_lon == FGt(abi_lon, Fin(-360 * Scale)) /\ FLt(abi_lon, Fin(360 * Scale))
        valid_lat == FGt(abi_lat, Fin(-90 * Scale)) /\ FLt(abi_lat, Fin(90 * Scale))
        is_valid  == valid_lon /\ valid_lat
        lon1 == IF is_valid THEN abi_lon ELSE NaN
        lat1 == IF is_valid THEN abi_lat ELSE NaN
        lon2 == IF FGe(lon1, Fin(180 * Scale))
                THEN FSub(lon1, Fin(360 * Scale)) ELSE lon1
        lon3 == IF FLt(lon2, Fin(-180 * Scale))
                THEN FAdd(lon2, Fin(360 * Scale)) ELSE lon2
    IN  <<lon3, lat1>>

\* make_consistent: range test, then longitude wrapped by 360 degrees.
\* Returns <<abi_lon, abi_lat>> like the code.
ConsistentCell(abi_lon, abi_lat) ==
    LET valid_lon == FGe(abi_lon, Fin(-360 * Scale)) /\ FLe(abi_lon, Fin(360 * Scale))
        valid_lat == FGe(abi_lat, Fin(-90 * Scale)) /\ FLe(abi_lat, Fin(90 * Scale))
        is_valid  == valid_lon /\ valid_lat
        lon1 == IF is_valid THEN abi_lon ELSE NaN
        lat1 == IF is_valid THEN abi_lat ELSE NaN
        lon2 == IF FGe(lon1, Fin(180 * Scale))
                THEN FSub(lon1, Fin(360 * Scale)) ELSE lon1
        lon3 == IF FLt(lon2, Fin(-180 * Scale))
                THEN FAdd(lon2, Fin(360 * Scale)) ELSE lon2
    IN  <<lon3, lat1>>

\* calculate_pixel_edges without the average: the padded centers themselves
calculate_pixel_edges_LeftOnly(centers) ==
    LET n == Len(centers)
        left_offset == FSub(FMul(Fin(2 * Scale), centers[1]), centers[2])
    IN  <<left_offset>> \o centers

\* calculate_pixel_edges without the average: the centers padded on the right
calculate_pixel_edges_RightOnly(centers) ==
    LET n == Len(centers)
        right_offset == FSub(FMul(Fin(2 * Scale), centers[n]), centers[n - 1])
    IN  centers \o <<right_offset>>

\* calculate_pixel_edges padding with the end centers (no extrapolation)
calculate_pixel_edges_NoExtrapolation(centers) ==
    LET n == Len(centers)
        half == Fin(Scale \div 2)
        left_centers  == <<centers[1]>> \o centers
        right_centers == centers \o <<centers[n]>>
    IN  [k \in 1..(n + 1) |-> FMul(half, FAdd(left_centers[k], right_centers[k]))]

\* calculate_pixel_edges extrapolating inwards: the offsets are the second
\* and the last but one center
calculate_pixel_edges_Inwards(centers) ==
    LET n == Len(centers)
        half == Fin(Scale \div 2)
        left_centers  == <<centers[2]>> \o centers
        right_centers == centers \o <<centers[n - 1]>>
    IN  [k \in 1..(n + 1) |-> FMul(half, FAdd(left_centers[k], right_centers[k]))]

\* calculate_pixel_edges(centers) for len(centers) >= 2: n + 1 edges.
\* (centers[1] and centers[-2] raise IndexError for a shorter vector.)
calculate_pixel_edges(centers) ==
    LET n == Len(centers)
        half == Fin(Scale \div 2)
        left_offset  == FSub(FMul(Fin(2 * Scale), centers[1]), centers[2])
        right_offset == FSub(FMul(Fin(2 * Scale), centers[n]), centers[n - 1])
        left_centers  == <<left_offset>> \o centers
        right_centers == centers \o <<right_offset>>
    IN  [k \in 1..(n + 1) |-> FMul(half, FAdd(left_centers[k], right_centers[k]))]

(***************************************************************************)
(* grid/grid_goesdr.py, grid/grid_helper.py: the core transform            *)
(***************************************************************************)
\* The equations of _transform_grid / compute_latlon_grid, one operator per
\* intermediate of the code.
a_var(ratio, sin_x, sin_y, cos_x, cos_y) ==
    FAdd(FMul(sin_x, sin_x),
         FMul(FMul(cos_x, cos_x),
              FAdd(FMul(cos_y, cos_y), FMul(ratio, FMul(sin_y, sin_y)))))

b_var(r_orb, cos_x, cos_y) ==
    FMul(FMul(FMul(Fin(-2 * Scale), r_orb), cos_x), cos_y)

c_var(r_orb, r_eq) == FSub(FMul(r_orb, r_orb), FMul(r_eq, r_eq))

\* (b_var**2) - (4.0 * a_var * c_var)
discriminant(a, b, c) == FSub(FMul(b, b), FMul(FMul(Fin(4 * Scale), a), c))

\* The far intersection of the ray with the ellipsoid
r_s_FarRoot(a, b, c) ==
    FDiv(FAdd(FMul(Fin(-Scale), b), FSqrt(discriminant(a, b, c))),
         FMul(Fin(2 * Scale), a))

r_s(a, b, c) ==
    FDiv(FSub(FMul(Fin(-Scale), b), FSqrt(discriminant(a, b, c))),
         FMul(Fin(2 * Scale), a))

\* <<s_x, s_y, s_z>>
SatelliteVector(rs, sin_x, sin_y, cos_x, cos_y) ==
    Only({<<FMul(FMul(r, cos_x), cos_y),
            FMul(FNeg(r), sin_x),
            FMul(FMul(r, cos_x), sin_y)>> : r \in {rs}})

\* (r_eq^2 / r_pol^2) * (s_z / sqrt((r_orb - s_x)^2 + s_y^2)), the argument
\* of the arctan of the latitude
LatitudeTangent(ratio, r_orb, s) ==
    FMul(ratio,
         FDiv(s[3], FSqrt(FAdd(FMul(FSub(r_orb, s[1]), FSub(r_orb, s[1])),
                               FMul(s[2], s[2])))))

\* <<abi_lat, abi_lon>> in degrees, longitude relative to the origin
GeodeticCell(ratio, r_orb, s) ==
    <<FRad2Deg(FArcTan(LatitudeTangent(ratio, r_orb, s))),
      FRad2Deg(FArcTan(FDiv(s[2], FSub(s[1], r_orb))))>>

\* _transform_grid / compute_latlon_grid on one cell, before the common
\* mask: <<abi_lat, abi_lon>>.
TransformCell(params, sin_x, sin_y, cos_x, cos_y) ==
    Only({Only({GeodeticCell(ratio, p[1], s) :
                  s \in {SatelliteVector(
                           r_s(a_var(ratio, sin_x, sin_y, cos_x, cos_y),
                               b_var(p[1], cos_x, cos_y),
                               c_var(p[1], p[2])),
                           sin_x, sin_y, cos_x, cos_y)}}) :
            p \in {params},
            ratio \in {FDiv(FMul(params[2], params[2]),
                            FMul(params[3], params[3]))}})

\* The transform applied to the scan angles x and y of one cell:
\* sin and cos of the angles, then the equations.
ComputeCell(params, x, y) ==
    Only({TransformCell(params, sx, sy, cx, cy) :
            sx \in {FSin(x)}, sy \in {FSin(y)},
            cx \in {FCos(x)}, cy \in {FCos(y)}})

\* The scan angles and the scalars of the datasets considered.
Angles == {-140, -10, 0, 10, 140}

YAngles == {-10, 10}

\* perspective_point_height, semi_major_axis, semi_minor_axis,
\* longitude_of_projection_origin: GRS80 seen from GOES-East, and a sphere
\* seen from a lower orbit at the longitude of GOES-West.
Scalars ==
    {[perspective_point_height |-> Fin(5611), semi_major_axis |-> Fin(1000),
      semi_minor_axis |-> Fin(997), longitude_of_projection_origin |-> Fin(-75000)],
     [perspective_point_height |-> Fin(4000), semi_major_axis |-> Fin(1000),
      semi_minor_axis |-> Fin(1000), longitude_of_projection_origin |-> Fin(-137200)]}

\* ComputeCell tabulated once over the angles (centers and pixel edges) and
\* the scalars of the datasets (the transform is a pure function; the table
\* only saves evaluations).
TabulatedAngles ==
    {(a + b) \div 2 : a \in Angles, b \in Angles}
    \cup {(3 * a - b) \div 2 : a \in Angles, b \in Angles}

TabulatedParams ==
    {<<FAdd(p.perspective_point_height, p.semi_major_axis),
       p.semi_major_axis, p.semi_minor_axis>> : p \in Scalars}

CellKeys == TabulatedParams \X TabulatedAngles \X TabulatedAngles

CellFcn ==
    [key \in CellKeys |-> ComputeCell(key[1], Fin(key[2]), Fin(key[3]))]

\* CellFcn as an explicit table (the comparison makes TLC enumerate it)
CellTable == CHOOSE f \in {CellFcn} : f = CellFcn

AngleCell(params, x, y) ==
    Only({IF IsFin(u) /\ IsFin(v) /\ <<p, u.v, v.v>> \in CellKeys
          THEN CellTable[<<p, u.v, v.v>>]
          ELSE ComputeCell(p, u, v) : p \in {params}, u \in {x}, v \in {y}})

\* A grid of <<lat, lon>> cells as the pair of a lat grid and a lon grid
SplitGrid(g) ==
    [lat |-> [i \in 1..Len(g) |-> [j \in 1..Len(g[i]) |-> g[i][j][1]]],
     lon |-> [i \in 1..Len(g) |-> [j \in 1..Len(g[i]) |-> g[i][j][2]]]]

\* _transform_grid / compute_latlon_grid: the transform on every cell of
\* the meshgrid of x_r (columns) and y_r (rows), then make_common_mask.
\* Returns [lat |-> grid, lon |-> grid].
TransformGrid(params, x_r, y_r) ==
    SplitGrid([i \in 1..Len(y_r) |-> [j \in 1..Len(x_r) |->
                 Only({MaskCell(t[1], t[2]) :
                         t \in {AngleCell(params, x_r[j], y_r[i])}})]])

(***************************************************************************)
(* The dataset (netCDF record): the scan-angle vectors x and y and the     *)
(* scalars of goes_imager_projection.                                      *)
(***************************************************************************)
\* GOESProjection.orbital_radius, ProjectionParameters.orbital_radius
orbital_radius(rec) == FAdd(rec.perspective_point_height, rec.semi_major_axis)

TransformParams(rec) == <<orbital_radius(rec), rec.semi_major_axis, rec.semi_minor_axis>>

\* lat.astype(float32), (lon + lambda_0).astype(float32)
FinishGrid(g, lambda_0) ==
    [lat |-> MapGrid(AsFloat32, g.lat),
     lon |-> [i \in 1..Len(g.lon) |->
                [j \in 1..Len(g.lon[i]) |-> AsFloat32(FAdd(g.lon[i][j], lambda_0))]]]

\* grid/grid_goesdr.py: calculate_latlon_grid_goesdr(projection_info), where
\* projection_info carries the x and y the caller has prepared.
calculate_latlon_grid_goesdr(rec, x_r, y_r) ==
    FinishGrid(TransformGrid(TransformParams(rec), x_r, y_r),
               rec.longitude_of_projection_origin)

\* grid/grid_opti.py: calculate_latlon_grid_opti(record)
calculate_latlon_grid_opti(rec) ==
    FinishGrid(TransformGrid(TransformParams(rec), rec.x, rec.y),
               rec.longitude_of_projection_origin)

(***************************************************************************)
(* grid/grid_fast.py: one quadrant and its mirror images                   *)
(***************************************************************************)
NegGrid(g) == MapGrid(FNeg, g)

\* g[::-1, :]
FlipRows(g) == Reverse(g)

\* g[-2::-1, :]: the rows above the last one, bottom-up
FlipRowsDropLast(g) == [i \in 1..(Len(g) - 1) |-> g[Len(g) - i]]

\* g[:, ::-1]
FlipCols(g) == [i \in 1..Len(g) |-> Reverse(g[i])]

\* g[:, -1:0:-1]: the columns right of the first one, right to left
FlipColsDropFirst(g) ==
    [i \in 1..Len(g) |-> [j \in 1..(Len(g[i]) - 1) |-> g[i][Len(g[i]) + 1 - j]]]

VStack(a, b) == a \o b

\* numpy.hstack of two grids with the same number of rows
HStack(a, b) == [i \in 1..Len(a) |-> a[i] \o b[i]]

\* _reconstruct_lat_grid mirroring every row, the shared one included
_reconstruct_lat_grid_KeepShared(northeast_grid, odd_size) ==
    LET east_grid == VStack(northeast_grid, NegGrid(FlipRows(northeast_grid)))
    IN  HStack(FlipCols(east_grid), east_grid)

_reconstruct_lat_grid(northeast_grid, odd_size) ==
    LET southeast_grid == IF odd_size
                          THEN NegGrid(FlipRowsDropLast(northeast_grid))
                          ELSE NegGrid(FlipRows(northeast_grid))
        east_grid == VStack(northeast_grid, southeast_grid)
        west_grid == IF odd_size THEN FlipColsDropFirst(east_grid)
                     ELSE FlipCols(east_grid)
    IN  HStack(west_grid, east_grid)

\* _reconstruct_lon_grid with the western half a plain mirror image
_reconstruct_lon_grid_SameSign(northeast_grid, odd_size) ==
    LET northwest_grid == IF odd_size THEN FlipColsDropFirst(northeast_grid)
                          ELSE FlipCols(northeast_grid)
        north_grid == HStack(northwest_grid, northeast_grid)
        south_grid == IF odd_size THEN FlipRowsDropLast(north_grid)
                      ELSE FlipRows(north_grid)
    IN  VStack(north_grid, south_grid)

_reconstruct_lon_grid(northeast_grid, odd_size) ==
    LET northwest_grid == IF odd_size
                          THEN NegGrid(FlipColsDropFirst(northeast_grid))
                          ELSE NegGrid(FlipCols(northeast_grid))
        north_grid == HStack(northwest_grid, northeast_grid)
        south_grid == IF odd_size THEN FlipRowsDropLast(north_grid)
                      ELSE FlipRows(north_grid)
    IN  VStack(north_grid, south_grid)

\* calculate_latlon_grid_fast taking its rows from the y of the dataset
calculate_latlon_grid_fast_DatasetY(rec) ==
    LET center   == Len(rec.x) \div 2
        odd_size == (Len(rec.x) % 2) = 1
        ne       == TransformGrid(TransformParams(rec), SliceFrom(rec.x, center),
                                  SliceFrom(Reverse(rec.y), Len(rec.y) \div 2))
    IN  FinishGrid([lat |-> _reconstruct_lat_grid(ne.lat, odd_size),
                    lon |-> _reconstruct_lon_grid(ne.lon, odd_size)],
                   rec.longitude_of_projection_origin)

calculate_latlon_grid_fast(rec) ==
    LET center   == Len(rec.x) \div 2
        odd_size == (Len(rec.x) % 2) = 1
        grid_x   == SliceFrom(rec.x, center)
        grid_y   == Reverse(grid_x)
        ne       == TransformGrid(TransformParams(rec), grid_x, grid_y)
    IN  FinishGrid([lat |-> _reconstruct_lat_grid(ne.lat, odd_size),
                    lon |-> _reconstruct_lon_grid(ne.lon, odd_size)],
                   rec.longitude_of_projection_origin)

(***************************************************************************)
(* grid/grid_noaa.py: the reference algorithm                              *)
(***************************************************************************)
PiFixed == 3142

\* <<abi_lat, abi_lon>> of grid_noaa.py: degrees by 180 / pi, and the
\* longitude measured from lambda_0
NoaaGeodeticCell(ratio, r_orb, lambda_0, s) ==
    LET deg == FDiv(Fin(180 * Scale), Fin(PiFixed))
    IN  <<FMul(deg, FArcTan(LatitudeTangent(ratio, r_orb, s))),
          FMul(FSub(lambda_0, FArcTan(FDiv(s[2], FSub(r_orb, s[1])))), deg)>>

\* The equations of calculate_latlon_grid_noaa on one cell, then
\* make_common_mask
NoaaCell(rec, x, y) ==
    Only({Only({MaskCell(t[1], t[2]) :
                  t \in {NoaaGeodeticCell(ratio, r_orb, lambda_0,
                           SatelliteVector(
                             r_s(a_var(ratio, sx, sy, cx, cy),
                                 b_var(r_orb, cx, cy),
                                 c_var(r_orb, rec.semi_major_axis)),
                             sx, sy, cx, cy))}}) :
            r_orb \in {FAdd(rec.perspective_point_height, rec.semi_major_axis)},
            ratio \in {FDiv(FMul(rec.semi_major_axis, rec.semi_major_axis),
                            FMul(rec.semi_minor_axis, rec.semi_minor_axis))},
            lambda_0 \in {FDiv(FMul(rec.longitude_of_projection_origin,
                                    Fin(PiFixed)), Fin(180 * Scale))},
            sx \in {FSin(x)}, sy \in {FSin(y)},
            cx \in {FCos(x)}, cy \in {FCos(y)}})

\* The 1-D vector the reference algorithm expands: the centers or the edges
NoaaAxis(v, corners) == IF corners THEN calculate_pixel_edges(v) ELSE v

NoaaGrid(rec, x_1d, y_1d) ==
    [i \in 1..Len(y_1d) |-> [j \in 1..Len(x_1d) |->
        Only({<<AsFloat32(t[1]), AsFloat32(t[2])>> :
                t \in {NoaaCell(rec, x_1d[j], y_1d[i])}})]]

calculate_latlon_grid_noaa(rec, corners) ==
    SplitGrid(NoaaGrid(rec, NoaaAxis(rec.x, corners), NoaaAxis(rec.y, corners)))

(***************************************************************************)
(* grid/grid_pyproj.py, grid/grid_cartopy.py: library-backed backends.     *)
(* The library is external: what it returns for a cell is an input of the  *)
(* model (lib), a function from <<row, column>> to <<lon, lat>>.           *)
(***************************************************************************)
\* What a correct library returns on cell (x_m, y_m): the projection of
\* the scan angles x_m / h and y_m / h, with infinities off the disk.
LibraryCell(rec, x_m, y_m) ==
    LET h == rec.perspective_point_height
        x == FDiv(x_m, h)
        y == FDiv(y_m, h)
    IN  Only({IF IsNaN(t[1]) \/ IsNaN(t[2]) THEN <<PosInf, PosInf>>
              ELSE <<FAdd(t[2], rec.longitude_of_projection_origin), t[1]>> :
                t \in {AngleCell(TransformParams(rec), x, y)}})

\* The library's answer with the cell anomaly.at replaced by anomaly.val
\* (anomaly.at = <<0, 0>>: no cell replaced).
LibraryGrid(rec, x_m, y_m, anomaly) ==
    [i \in 1..Len(y_m) |-> [j \in 1..Len(x_m) |->
        IF anomaly.at = <<i, j>> THEN anomaly.val
        ELSE LibraryCell(rec, x_m[j], y_m[i])]]

\* make_consistent on the library's grids, then astype(float32)
calculate_latlon_grid_library(rec, x_r, y_r, anomaly) ==
    LET x_m == [j \in 1..Len(x_r) |-> FMul(x_r[j], rec.perspective_point_height)]
        y_m == [i \in 1..Len(y_r) |-> FMul(y_r[i], rec.perspective_point_height)]
        raw == LibraryGrid(rec, x_m, y_m, anomaly)
        c(i, j) == Only({ConsistentCell(v[1], v[2]) : v \in {raw[i][j]}})
    IN  [lat |-> [i \in 1..Len(y_m) |-> [j \in 1..Len(x_m) |-> AsFloat32(c(i, j)[2])]],
         lon |-> [i \in 1..Len(y_m) |-> [j \in 1..Len(x_m) |-> AsFloat32(c(i, j)[1])]]]

(***************************************************************************)
(* geodetic.py: GOESGeodeticGrid.calculate                                 *)
(*                                                                         *)
(* An algorithm string is a sequence of atoms: a word atom stands for a    *)
(* non-empty run of \w characters, the other atoms for one character.  No  *)
(* concatenation of two or more word atoms is an accepted name or option.  *)
(***************************************************************************)
Names == {"cartopy", "goesdr", "pyproj"}

Options == {"center", "corner"}

WordAtoms == Names \cup Options \cup {"bogus", "option"}

Atoms == WordAtoms \cup {"[", "]", "\n"}

AllWords(s) == \A i \in 1..Len(s) : s[i] \in WordAtoms

\* The position of the first "[" of s, 0 when there is none
RECURSIVE FirstBracket(_, _)
FirstBracket(s, i) ==
    IF i > Len(s) THEN 0
    ELSE IF s[i] = "[" THEN i
    ELSE FirstBracket(s, i + 1)

\* re.match(r"^(\w+)(?:\[(\w+)\])?$", algorithm): the groups, or no match.
\* "$" matches at the end of the string and before a newline that ends it.
\* A group is the sequence of its word atoms; option <<>> is None.
MatchPattern(algorithm) ==
    LET n    == Len(algorithm)
        body == IF n > 0 /\ algorithm[n] = "\n"
                THEN SubSeq(algorithm, 1, n - 1) ELSE algorithm
        m    == Len(body)
        b    == FirstBracket(body, 1)
        none == [matched |-> FALSE, name |-> <<>>, option |-> <<>>]
    IN  IF m = 0 THEN none
        ELSE IF AllWords(body)
             THEN [matched |-> TRUE, name |-> body, option |-> <<>>]
        ELSE IF /\ b > 1
                /\ body[m] = "]"
                /\ m - b >= 2
                /\ AllWords(SubSeq(body, 1, b - 1))
                /\ AllWords(SubSeq(body, b + 1, m - 1))
             THEN [matched |-> TRUE, name |-> SubSeq(body, 1, b - 1),
                   option |-> SubSeq(body, b + 1, m - 1)]
        ELSE none

NoError == [type |-> "none", token |-> <<>>, accepted |-> {}]

ValueError(token, accepted) ==
    [type |-> "ValueError", token |-> token, accepted |-> accepted]

\* _parse_algorithm checking the option before the name
_parse_algorithm_OptionFirst(algorithm) ==
    LET match_ == MatchPattern(algorithm)
        name   == match_.name
        option == match_.option
        fail(e) == [err |-> e, name |-> <<>>, corner |-> FALSE]
    IN  IF ~match_.matched
        THEN fail(ValueError(algorithm, Names \cup Options))
        ELSE IF ~(option = <<>> \/ (Len(option) = 1 /\ option[1] \in Options))
        THEN fail(ValueError(option, Options))
        ELSE IF ~(Len(name) = 1 /\ name[1] \in Names)
        THEN fail(ValueError(name, Names))
        ELSE [err |-> NoError, name |-> name, corner |-> (option = <<"corner">>)]

\* GOESGeodeticGrid._parse_algorithm
_parse_algorithm(algorithm) ==
    LET match_ == MatchPattern(algorithm)
        name   == match_.name
        option == match_.option
        fail(e) == [err |-> e, name |-> <<>>, corner |-> FALSE]
    IN  IF ~match_.matched
        THEN fail(ValueError(algorithm, Names \cup Options))
        ELSE IF ~(Len(name) = 1 /\ name[1] \in Names)
        THEN fail(ValueError(name, Names))
        ELSE IF ~(option = <<>> \/ (Len(option) = 1 /\ option[1] \in Options))
        THEN fail(ValueError(option, Options))
        ELSE [err |-> NoError, name |-> name, corner |-> (option = <<"corner">>)]

\* _parse_step rejecting negative components only
_parse_step_AllowZero(step) ==
    LET pair == IF Len(step) = 1 THEN <<step[1], step[1]>> ELSE step
    IN  IF pair[1] < 0 \/ pair[2] < 0
        THEN [err |-> [type |-> "ValueError", token |-> pair, accepted |-> {}],
              step |-> <<>>]
        ELSE [err |-> [type |-> "none", token |-> <<>>, accepted |-> {}],
              step |-> pair]

\* GOESGeodeticGrid._parse_step.  A step is <<s>> for the int s and <<r, c>>
\* for the tuple (r, c).
_parse_step(step) ==
    LET pair == IF Len(step) = 1 THEN <<step[1], step[1]>> ELSE step
    IN  IF pair[1] <= 0 \/ pair[2] <= 0
        THEN [err |-> ValueError(pair, {}), step |-> <<>>]
        ELSE [err |-> NoError, step |-> pair]

FILL_VALUE == Fin(-999990)

NoGrid == <<>>

\* numpy.ma.masked_invalid(a).mask: true where a is NaN or infinite
MaskInvalid(g) == [i \in 1..Len(g) |-> [j \in 1..Len(g[i]) |-> ~IsFin(g[i][j])]]

\* What a call returns or raises.
Result(err, g) ==
    [err  |-> err,
     lat  |-> IF err.type = "none" THEN g.lat ELSE NoGrid,
     lon  |-> IF err.type = "none" THEN g.lon ELSE NoGrid,
     lat_mask |-> IF err.type = "none" THEN MaskInvalid(g.lat) ELSE NoGrid,
     lon_mask |-> IF err.type = "none" THEN MaskInvalid(g.lon) ELSE NoGrid,
     fill_value |-> IF err.type = "none" THEN FILL_VALUE ELSE NaN]

Raised(err) == Result(err, [lat |-> NoGrid, lon |-> NoGrid])

\* The step slice taken before the edges are derived
PrepareAxis_StepFirst(v, corners, step) ==
    LET e == IF step > 1 THEN Stride(v, step) ELSE v
    IN  IF corners /\ Len(e) >= 2 THEN calculate_pixel_edges(e) ELSE e

\* The step slice started at the second element (v[1::step])
PrepareAxis_FromSecond(v, corners, step) ==
    LET e == IF corners THEN calculate_pixel_edges(v) ELSE v
    IN  IF step > 1 THEN Stride(SliceFrom(e, 1), step) ELSE e

\* GOESGeodeticGrid._initialize_calculated: the x and y handed to the backend
PrepareAxis(v, corners, step) ==
    LET e == IF corners THEN calculate_pixel_edges(v) ELSE v
    IN  IF step > 1 THEN Stride(e, step) ELSE e

\* GOESGeodeticGrid._initialize_calculated and _calculate_latlon_grid, after
\* the algorithm and the step are parsed.  importable: the optional library
\* of the backend can be imported; anomaly: see LibraryGrid.
_initialize_calculated(rec, algorithm, corners, step, importable, anomaly) ==
    IF corners /\ (Len(rec.x) < 2 \/ Len(rec.y) < 2)
    THEN Raised([type |-> "IndexError", token |-> <<>>, accepted |-> {}])
    ELSE LET x_r == PrepareAxis(rec.x, corners, step[2])
             y_r == PrepareAxis(rec.y, corners, step[1])
         IN  IF algorithm = "goesdr"
             THEN Result(NoError, calculate_latlon_grid_goesdr(rec, x_r, y_r))
             ELSE IF ~importable
             THEN Raised([type |-> "ImportError", token |-> <<algorithm>>,
                          accepted |-> {}])
             ELSE Result(NoError,
                         calculate_latlon_grid_library(rec, x_r, y_r, anomaly))

\* GOESGeodeticGrid.calculate(record, algorithm, step)
calculate(rec, algorithm, step, importable, anomaly) ==
    LET a == _parse_algorithm(algorithm)
        s == _parse_step(step)
    IN  IF a.err.type # "none" THEN Raised(a.err)
        ELSE IF s.err.type # "none" THEN Raised(s.err)
        ELSE _initialize_calculated(rec, a.name[1], a.corner, s.step,
                                    importable, anomaly)

(***************************************************************************)
(* Inputs.  Scan angles are even counts of 1/Scale rad, so that halving a  *)
(* sum of two of them is exact, as it is in binary floating point.         *)
(***************************************************************************)
RECURSIVE Ascending(_)
\* The elements of a set of integers in ascending order
Ascending(S) ==
    IF S = {} THEN <<>>
    ELSE LET m == CHOOSE a \in S : \A b \in S : a <= b
         IN  <<Fin(m)>> \o Ascending(S \ {m})

\* The strictly monotonic vectors of 1..MaxLen angles of the set A
Monotonic(A) ==
    LET sets == {S \in SUBSET A : Cardinality(S) \in 1..MaxLen}
    IN  {Ascending(S) : S \in sets} \cup {Reverse(Ascending(S)) : S \in sets}

XVectors == Monotonic(Angles)

YVectors == Monotonic(YAngles)

Record(x, y, p) ==
    [x |-> x, y |-> y,
     perspective_point_height |-> p.perspective_point_height,
     semi_major_axis |-> p.semi_major_axis,
     semi_minor_axis |-> p.semi_minor_axis,
     longitude_of_projection_origin |-> p.longitude_of_projection_origin]

Records ==
    {Record(x, y, p) : x \in XVectors, y \in YVectors, p \in Scalars}
    \cup {Record(x, Reverse(x), p) : x \in XVectors, p \in Scalars}

AlgorithmInputs ==
    {<<"goesdr">>, <<"goesdr", "[", "corner", "]">>,
     <<"pyproj", "[", "corner", "]">>, <<"cartopy">>,
     <<"bogus", "[", "option", "]">>}

StepInputs ==
    {<<MaxStep>>}
    \cup {<<r, c>> : r \in 1..MaxStep, c \in 1..MaxStep}
    \cup {<<0, 1>>}

NoAnomaly == [at |-> <<0, 0>>, val |-> <<NaN, NaN>>]

\* Answers of the library for the first cell that are not a projection
Anomalies ==
    {[at |-> <<1, 1>>, val |-> v] :
        v \in {<<NaN, Fin(0)>>, <<Fin(0), NaN>>,
               <<Fin(200 * Scale), Fin(91 * Scale)>>}}

\* The environments a backend can meet: for a library-backed one, whether
\* the library is importable and what it answers.
Environments(algorithm) ==
    LET a == _parse_algorithm(algorithm)
    IN  IF a.err.type = "none" /\ a.name[1] # "goesdr"
        THEN {<<FALSE, NoAnomaly>>} \cup
             {<<TRUE, an>> : an \in Anomalies \cup {NoAnomaly}}
        ELSE {<<TRUE, NoAnomaly>>}

(***************************************************************************)
(* State: the dataset at hand, the last call and what it returned.         *)
(***************************************************************************)
VARIABLES record, call, out

vars == <<record, call, out>>

NoResult == Raised(NoError)

Call(op, algorithm, step, corners, centers, importable, anomaly) ==
    [op |-> op, algorithm |-> algorithm, step |-> step, corners |-> corners,
     centers |-> centers, importable |-> importable, anomaly |-> anomaly]

NoCall == Call("none", <<>>, <<>>, FALSE, <<>>, TRUE, NoAnomaly)

Out(res, edges, alg, stp) ==
    [res |-> res, edges |-> edges, alg |-> alg, stp |-> stp]

NoAlg == [err |-> NoError, name |-> <<>>, corner |-> FALSE]

NoStp == [err |-> NoError, step |-> <<>>]

GridOut(res) == Out(res, <<>>, NoAlg, NoStp)

Init ==
    /\ record \in Records
    /\ call = NoCall
    /\ out = GridOut(NoResult)

\* GOESGeodeticGrid.calculate(record, algorithm, step)
Calculate ==
    /\ call.op = "none"
    /\ \E algorithm \in AlgorithmInputs, step \in StepInputs :
        \E env \in Environments(algorithm) :
          /\ call' = Call("calculate", algorithm, step, FALSE, <<>>, env[1], env[2])
          /\ out' = GridOut(calculate(record, algorithm, step, env[1], env[2]))
          /\ UNCHANGED record

\* calculate_latlon_grid_fast(record)
Fast ==
    /\ call.op = "none"
    /\ call' = Call("fast", <<>>, <<>>, FALSE, <<>>, TRUE, NoAnomaly)
    /\ out' = GridOut(Result(NoError, calculate_latlon_grid_fast(record)))
    /\ UNCHANGED record

\* calculate_latlon_grid_opti(record)
Opti ==
    /\ call.op = "none"
    /\ call' = Call("opti", <<>>, <<>>, FALSE, <<>>, TRUE, NoAnomaly)
    /\ out' = GridOut(Result(NoError, calculate_latlon_grid_opti(record)))
    /\ UNCHANGED record

\* calculate_latlon_grid_noaa(record, corners)
Noaa ==
    \E corners \in BOOLEAN :
        /\ call.op = "none"
        /\ call' = Call("noaa", <<>>, <<>>, corners, <<>>, TRUE, NoAnomaly)
        /\ out' = GridOut(
              IF corners /\ (Len(record.x) < 2 \/ Len(record.y) < 2)
              THEN Raised([type |-> "IndexError", token |-> <<>>, accepted |-> {}])
              ELSE Result(NoError, calculate_latlon_grid_noaa(record, corners)))
        /\ UNCHANGED record

\* calculate_pixel_edges(centers) on a coordinate vector of the dataset
PixelEdges ==
    \E centers \in {record.x, record.y} :
        /\ call.op = "none"
        /\ call' = Call("edges", <<>>, <<>>, FALSE, centers, TRUE, NoAnomaly)
        /\ out' = IF Len(centers) < 2
                  THEN GridOut(Raised([type |-> "IndexError", token |-> <<>>,
                                       accepted |-> {}]))
                  ELSE Out(NoResult, calculate_pixel_edges(centers), NoAlg, NoStp)
        /\ UNCHANGED record

\* The caller is done with the result; the next call starts afresh.
Return ==
    /\ call.op # "none"
    /\ call' = NoCall
    /\ out' = GridOut(NoResult)
    /\ UNCHANGED record

Next == Calculate \/ Fast \/ Opti \/ Noaa \/ PixelEdges \/ Return

Spec == Init /\ [][Next]_vars

(***************************************************************************)
(* The parsers on their own, on every algorithm string of at most          *)
(* MaxTokens atoms and every step of components -1..MaxStep.               *)
(***************************************************************************)
MaxTokens == 4

AlgorithmStrings == UNION {[1..n -> Atoms] : n \in 0..MaxTokens}

StepComponents == -1..MaxStep

ParseStepInputs ==
    {<<s>> : s \in StepComponents}
    \cup {<<r, c>> : r \in StepComponents, c \in StepComponents}

NominalRecord ==
    Record(<<Fin(-10), Fin(10)>>, <<Fin(10), Fin(-10)>>,
           CHOOSE p \in Scalars : p.semi_minor_axis = Fin(997))

InitParse ==
    /\ record = NominalRecord
    /\ call = NoCall
    /\ out = GridOut(NoResult)

\* GOESGeodeticGrid._parse_algorithm(algorithm)
ParseAlgorithm ==
    /\ call.op = "none"
    /\ \E algorithm \in AlgorithmStrings :
        /\ call' = Call("parse_algorithm", algorithm, <<>>, FALSE, <<>>, TRUE, NoAnomaly)
        /\ out' = Out(NoResult, <<>>, _parse_algorithm(algorithm), NoStp)
    /\ UNCHANGED record

\* GOESGeodeticGrid._parse_step(step)
ParseStep ==
    /\ call.op = "none"
    /\ \E step \in ParseStepInputs :
        /\ call' = Call("parse_step", <<>>, step, FALSE, <<>>, TRUE, NoAnomaly)
        /\ out' = Out(NoResult, <<>>, NoAlg, _parse_step(step))
    /\ UNCHANGED record

NextParse == ParseAlgorithm \/ ParseStep \/ Return

SpecParse == InitParse /\ [][NextParse]_vars

(***************************************************************************)
(* The validity maskers of grid/helper.py on their own, on arrays of two   *)
(* cells whose latitudes and longitudes are taken around the limits the    *)
(* code tests (in degrees: 90, 180, 360), with NaN and the infinities.     *)
(***************************************************************************)
\* make_common_mask(abi_lat, abi_lon) on same-shape arrays: returns
\* [lat |-> array, lon |-> array]
make_common_mask(abi_lat, abi_lon) ==
    [lat |-> [k \in 1..Len(abi_lat) |-> MaskCell(abi_lat[k], abi_lon[k])[1]],
     lon |-> [k \in 1..Len(abi_lat) |-> MaskCell(abi_lat[k], abi_lon[k])[2]]]

\* make_consistent(abi_lon, abi_lat) on same-shape arrays: returns
\* [lon |-> array, lat |-> array]
make_consistent(abi_lon, abi_lat) ==
    [lon |-> [k \in 1..Len(abi_lon) |-> ConsistentCell(abi_lon[k], abi_lat[k])[1]],
     lat |-> [k \in 1..Len(abi_lon) |-> ConsistentCell(abi_lon[k], abi_lat[k])[2]]]

\* The last two statements of a library-backed backend: make_consistent,
\* then both arrays converted to 32 bits.
consistent_float32(abi_lon, abi_lat) ==
    [lat |-> [k \in 1..Len(abi_lon) |->
                AsFloat32(ConsistentCell(abi_lon[k], abi_lat[k])[2])],
     lon |-> [k \in 1..Len(abi_lon) |->
                AsFloat32(ConsistentCell(abi_lon[k], abi_lat[k])[1])]]

\* Latitudes and longitudes in 1/Scale degrees
LatitudeSamples ==
    {NaN, PosInf, NegInf} \cup
    {Fin(v) : v \in {-90 * Scale - 1, -90 * Scale, 0, 45 * Scale,
                     90 * Scale, 90 * Scale + 1}}

LongitudeSamples ==
    {NaN, PosInf, NegInf} \cup
    {Fin(v) : v \in {-360 * Scale - 1, -360 * Scale, -180 * Scale - 1,
                     -180 * Scale, -75 * Scale, 180 * Scale - 1, 180 * Scale,
                     360 * Scale, 360 * Scale + 1}}

\* The arrays handed to a masker: a first cell of any sample values, then
\* a cell of the same kind or an ordinary one
MaskerInputs ==
    {[abi_lat |-> <<lat, lat2>>, abi_lon |-> <<lon, lon2>>] :
        lat \in LatitudeSamples, lon \in LongitudeSamples,
        lat2 \in {Fin(45 * Scale), NaN}, lon2 \in {Fin(-75 * Scale), PosInf}}

InitCell ==
    /\ record = NominalRecord
    /\ call = NoCall
    /\ out = GridOut(NoResult)

\* make_common_mask(abi_lat, abi_lon)
MakeCommonMask ==
    /\ call.op = "none"
    /\ \E in \in MaskerInputs :
        /\ call' = [op |-> "make_common_mask", abi_lat |-> in.abi_lat, abi_lon |-> in.abi_lon]
        /\ out' = make_common_mask(in.abi_lat, in.abi_lon)
    /\ UNCHANGED record

\* make_consistent(abi_lon, abi_lat)
MakeConsistent ==
    /\ call.op = "none"
    /\ \E in \in MaskerInputs :
        /\ call' = [op |-> "make_consistent", abi_lat |-> in.abi_lat, abi_lon |-> in.abi_lon]
        /\ out' = make_consistent(in.abi_lon, in.abi_lat)
    /\ UNCHANGED record

\* The end of a library-backed backend on the library's arrays
LibraryOutput ==
    /\ call.op = "none"
    /\ \E in \in MaskerInputs :
        /\ call' = [op |-> "library", abi_lat |-> in.abi_lat, abi_lon |-> in.abi_lon]
        /\ out' = consistent_float32(in.abi_lon, in.abi_lat)
    /\ UNCHANGED record

NextCell == MakeCommonMask \/ MakeConsistent \/ LibraryOutput \/ Return

SpecCell == InitCell /\ [][NextCell]_vars

(***************************************************************************)
(* geodetic.py: GOESGeodeticGrid.from_file on a file of precomputed grids. *)
(* A file holds, for latitude and for longitude, the data and the mask of  *)
(* a masked array and its fill value.                                      *)
(***************************************************************************)
\* s[::step] for a step other than 0: a negative step starts at the last
\* element and goes backwards
Slice(s, step) == IF step > 0 THEN Stride(s, step) ELSE Stride(Reverse(s), -step)

\* x[:: step[0], :: step[1]]
Subsample(g, step) ==
    [i \in 1..Len(Slice(g, step[1])) |-> Slice(Slice(g, step[1])[i], step[2])]

\* _latlon_data(name, record, step); step = <<>> stands for None
_latlon_data(name, file, step) ==
    [data |-> IF step = <<>> THEN file[name].data
              ELSE Subsample(file[name].data, step),
     mask |-> IF step = <<>> THEN file[name].mask
              ELSE Subsample(file[name].mask, step),
     fill_value |-> file[name].fill_value]

\* abi.data[abi.mask] = nan
MaskToNaN(abi) ==
    [abi EXCEPT !.data = [i \in 1..Len(abi.data) |-> [j \in 1..Len(abi.data[i]) |->
                            IF abi.mask[i][j] THEN NaN ELSE abi.data[i][j]]]]

\* GOESGeodeticGrid.from_file(record, step)
\* (a slice with a zero step raises ValueError, slice step cannot be zero)
from_file(file, step) ==
    LET pair == IF Len(step) = 1 THEN <<step[1], step[1]>> ELSE step
    IN  IF pair # <<>> /\ (pair[1] = 0 \/ pair[2] = 0)
        THEN [err |-> ValueError(<<>>, {}),
              latitude  |-> [data |-> NoGrid, mask |-> NoGrid, fill_value |-> NaN],
              longitude |-> [data |-> NoGrid, mask |-> NoGrid, fill_value |-> NaN]]
        ELSE [err |-> NoError,
              latitude  |-> MaskToNaN(_latlon_data("latitude", file, pair)),
              longitude |-> MaskToNaN(_latlon_data("longitude", file, pair))]

\* One cell of a file: the values stored and the two masks
FileCell(lat, lon, lat_mask, lon_mask) ==
    [lat |-> lat, lon |-> lon, lat_mask |-> lat_mask, lon_mask |-> lon_mask]

\* Any combination of stored value (a coordinate or the fill value) and
\* of masks for the first cell
FirstCells ==
    {FileCell(lat, lon, lat_mask, lon_mask) :
        lat \in {Fin(45 * Scale), FILL_VALUE},
        lon \in {Fin(-75 * Scale), FILL_VALUE},
        lat_mask \in BOOLEAN, lon_mask \in BOOLEAN}

\* The other cells: valid, masked in both arrays, masked in latitude only
OtherCells ==
    {FileCell(Fin(30 * Scale), Fin(-60 * Scale), FALSE, FALSE),
     FileCell(FILL_VALUE, FILL_VALUE, TRUE, TRUE),
     FileCell(FILL_VALUE, Fin(-60 * Scale), TRUE, FALSE)}

\* The file whose 2 x 2 grids hold the cells c
FileOf(c) ==
    [latitude  |-> [data |-> [i \in 1..2 |-> [j \in 1..2 |-> c[i][j].lat]],
                    mask |-> [i \in 1..2 |-> [j \in 1..2 |-> c[i][j].lat_mask]],
                    fill_value |-> FILL_VALUE],
     longitude |-> [data |-> [i \in 1..2 |-> [j \in 1..2 |-> c[i][j].lon]],
                    mask |-> [i \in 1..2 |-> [j \in 1..2 |-> c[i][j].lon_mask]],
                    fill_value |-> FILL_VALUE]]

Files ==
    {FileOf(<<<<a, b>>, <<c, d>>>>) :
        a \in FirstCells, b \in OtherCells, c \in OtherCells, d \in OtherCells}

\* step: None, an int, a tuple
FileSteps ==
    {<<>>, <<1>>, <<2>>, <<1, 2>>, <<2, 1>>, <<0>>, <<-1>>, <<1, 0>>, <<-2, 1>>}

\* GOESGeodeticGrid.from_file(record, step)
FromFile ==
    /\ call.op = "none"
    /\ \E file \in Files, step \in FileSteps :
        /\ call' = [op |-> "from_file", file |-> file, step |-> step]
        /\ out' = from_file(file, step)
    /\ UNCHANGED record

NextFile == FromFile \/ Return

SpecFile == InitCell /\ [][NextFile]_vars

(***************************************************************************)
(* geodetic.py: the statements GOESGeodeticGrid.calculate executes, in the *)
(* order it executes them, and the optional library of a backend.          *)
(***************************************************************************)
\* The optional library: installed, not installed, or installed and
\* failing to import
LibraryStates == {"installed", "absent", "broken"}

\* What the import statement of a backend raises
ImportFailure(lib) ==
    IF lib = "absent" THEN "ModuleNotFoundError"
    ELSE IF lib = "broken" THEN "ImportError"
    ELSE "none"

\* The exceptions `except ImportError` catches
ImportErrors == {"ImportError", "ModuleNotFoundError"}

\* try: from <name> import ... except ImportError: raise ImportError(...)
import_library(name, lib) ==
    IF ImportFailure(lib) \in ImportErrors
    THEN [type |-> "ImportError", token |-> <<name>>, accepted |-> {}]
    ELSE NoError

\* The statements that read the dataset
ReadEvents == {"GOESProjection"}

\* The statements that compute a coordinate vector or a grid
ComputeEvents ==
    {"calculate_pixel_edges", "step_slice", "calculate_latlon_grid_goesdr",
     "inverse_projection", "make_consistent", "masked_invalid"}

\* _initialize_calculated and _calculate_latlon_grid, statement by statement
initialize_events(rec, algorithm, corners, step, lib) ==
    <<"GOESProjection">> \o
    (IF corners THEN <<"calculate_pixel_edges">> ELSE <<>>) \o
    (IF corners /\ (Len(rec.x) < 2 \/ Len(rec.y) < 2) THEN <<>>
     ELSE (IF step[1] > 1 \/ step[2] > 1 THEN <<"step_slice">> ELSE <<>>) \o
          <<"ProjectionParameters">> \o
          (IF algorithm = "goesdr"
           THEN <<"calculate_latlon_grid_goesdr", "masked_invalid">>
           ELSE <<"import">> \o
                (IF import_library(algorithm, lib).type # "none" THEN <<>>
                 ELSE <<"inverse_projection", "make_consistent",
                        "masked_invalid">>)))

\* calculate reading the dataset before it parses its arguments
calculate_events_ReadFirst(rec, algorithm, step, lib) ==
    LET a == _parse_algorithm(algorithm)
        s == _parse_step(step)
    IN  IF a.err.type # "none" THEN <<"GOESProjection", "_parse_algorithm">>
        ELSE IF s.err.type # "none"
        THEN <<"GOESProjection", "_parse_algorithm", "_parse_step">>
        ELSE <<"_parse_algorithm", "_parse_step">>
             \o initialize_events(rec, a.name[1], a.corner, s.step, lib)

\* GOESGeodeticGrid.calculate, statement by statement
calculate_events(rec, algorithm, step, lib) ==
    LET a == _parse_algorithm(algorithm)
        s == _parse_step(step)
    IN  IF a.err.type # "none" THEN <<"_parse_algorithm">>
        ELSE IF s.err.type # "none" THEN <<"_parse_algorithm", "_parse_step">>
        ELSE <<"_parse_algorithm", "_parse_step">>
             \o initialize_events(rec, a.name[1], a.corner, s.step, lib)

\* Datasets of 2 x 2, 1 x 1 and 2 x 3 pixels
RunRecords ==
    {NominalRecord,
     Record(<<Fin(0)>>, <<Fin(10)>>,
            CHOOSE p \in Scalars : p.semi_minor_axis = Fin(1000)),
     Record(<<Fin(-140), Fin(0), Fin(140)>>, <<Fin(10), Fin(-10)>>,
            CHOOSE p \in Scalars : p.semi_minor_axis = Fin(997))}

RunAlgorithms == AlgorithmInputs \cup {<<"pyproj">>}

\* step: an int, a tuple, a tuple with a component that is not positive
RunSteps == {<<1>>, <<2>>, <<1, 2>>, <<0, 1>>}

InitRun ==
    /\ record \in RunRecords
    /\ call = [op |-> "none", algorithm |-> <<>>, step |-> <<>>,
               importable |-> TRUE, lib |-> "installed", prev |-> "none"]
    /\ out = [res |-> NoResult, events |-> <<>>]

\* calculate writing the edges and the step slice it derives into the x and
\* y of the dataset
RunCalculate_InPlace ==
    \E algorithm \in RunAlgorithms, step \in RunSteps, lib \in LibraryStates :
        /\ call' = [op |-> "calculate", algorithm |-> algorithm, step |-> step,
                    importable |-> lib = "installed", lib |-> lib,
                    prev |-> out.res.err.type]
        /\ out' = [res |-> calculate(record, algorithm, step, lib = "installed",
                                     NoAnomaly),
                   events |-> calculate_events(record, algorithm, step, lib)]
        /\ record' =
              IF out'.res.err.type # "none" THEN record
              ELSE [record EXCEPT
                      !.x = PrepareAxis(record.x, _parse_algorithm(algorithm).corner,
                                        _parse_step(step).step[2]),
                      !.y = PrepareAxis(record.y, _parse_algorithm(algorithm).corner,
                                        _parse_step(step).step[1])]

\* GOESGeodeticGrid.calculate(record, algorithm, step), one call after
\* another: the call, the state of the optional library, how the call
\* before it ended (prev); what it returns and the statements it executed.
RunCalculate ==
    \E algorithm \in RunAlgorithms, step \in RunSteps, lib \in LibraryStates :
        /\ call' = [op |-> "calculate", algorithm |-> algorithm, step |-> step,
                    importable |-> lib = "installed", lib |-> lib,
                    prev |-> out.res.err.type]
        /\ out' = [res |-> calculate(record, algorithm, step, lib = "installed",
                                     NoAnomaly),
                   events |-> calculate_events(record, algorithm, step, lib)]
        /\ UNCHANGED record

NextRun == RunCalculate

SpecRun == InitRun /\ [][NextRun]_vars

(***************************************************************************)
(* grid/grid_goesdr.py: the direct backend on its own, with the            *)
(* intermediates of the equations of every cell.                           *)
(***************************************************************************)
\* The discriminant, r_s and <<s_x, s_y, s_z>> of one cell
CellSteps(params, x, y) ==
    Only({Only({[disc |-> discriminant(a, b, c),
                 r_s  |-> r_s(a, b, c),
                 s    |-> SatelliteVector(r_s(a, b, c), sx, sy, cx, cy)] :
                  a \in {a_var(ratio, sx, sy, cx, cy)},
                  b \in {b_var(params[1], cx, cy)},
                  c \in {c_var(params[1], params[2])}}) :
            sx \in {FSin(x)}, sy \in {FSin(y)},
            cx \in {FCos(x)}, cy \in {FCos(y)},
            ratio \in {FDiv(FMul(params[2], params[2]),
                            FMul(params[3], params[3]))}})

\* Vectors of two scan angles among the sub-satellite point, two angles on
\* the disk and one off it
CoreVectors ==
    {<<Fin(v[1]), Fin(v[2])>> :
        v \in {w \in {-280, 0, 10, 140} \X {-280, 0, 10, 140} : w[1] # w[2]}}

\* Scalars with r_orb > r_eq >= r_pol > 0: the two of Scalars, a flattened
\* globe under a low orbit, a sphere one unit below the satellite
CoreScalars ==
    Scalars \cup
    {[perspective_point_height |-> Fin(1500), semi_major_axis |-> Fin(1500),
      semi_minor_axis |-> Fin(750), longitude_of_projection_origin |-> Fin(-89500)],
     [perspective_point_height |-> Fin(1), semi_major_axis |-> Fin(1000),
      semi_minor_axis |-> Fin(1000), longitude_of_projection_origin |-> Fin(-137202)]}

CoreRecords ==
    {Record(x, y, p) : x \in CoreVectors, y \in CoreVectors, p \in CoreScalars}

InitCore ==
    /\ record \in CoreRecords
    /\ call = NoCall
    /\ out = GridOut(NoResult)

\* calculate_latlon_grid_goesdr on the x and y of the dataset, with the
\* intermediates of every cell
CoreTransform ==
    /\ call.op = "none"
    /\ call' = [NoCall EXCEPT !.op = "transform"]
    /\ out' =
          [res |-> Result(NoError,
                          calculate_latlon_grid_goesdr(record, record.x, record.y)),
           cells |-> [i \in 1..Len(record.y) |-> [j \in 1..Len(record.x) |->
              CellSteps(TransformParams(record), record.x[j], record.y[i])]]]
    /\ UNCHANGED record

NextCore == CoreTransform \/ Return

SpecCore == InitCore /\ [][NextCore]_vars

(***************************************************************************)
(* geodetic.py: two invocations of _initialize_calculated for the direct   *)
(* backend, on separate threads, one statement at a time.  Everything an   *)
(* invocation works on is local to it, the error mode of numpy included,   *)
(* which numpy keeps per thread.                                           *)
(***************************************************************************)
Threads == {1, 2}

\* The locals of an invocation before its first statement: corners and
\* step as parsed, mode the thread's numpy error mode for invalid operations
Invocations ==
    {[pc |-> "projection", corners |-> c, step |-> s, mode |-> m, saved |-> m,
      x_r |-> <<>>, y_r |-> <<>>, grid |-> [lat |-> NoGrid, lon |-> NoGrid],
      res |-> NoResult] :
        c \in BOOLEAN, s \in {<<1, 1>>, <<2, 1>>}, m \in {"warn", "raise"}}

\* An invalid operation (the square root of a negative number) was met
Invalid(grid) ==
    \E i \in 1..Len(grid.lat) : \E j \in 1..Len(grid.lat[i]) : IsNaN(grid.lat[i][j])

\* The statement at loc.pc executed on the locals loc of an invocation on
\* the dataset rec
Advance(loc, rec) ==
    CASE loc.pc = "projection" ->
           [loc EXCEPT !.pc = "edges", !.x_r = rec.x, !.y_r = rec.y]
      [] loc.pc = "edges" ->
           IF ~loc.corners THEN [loc EXCEPT !.pc = "slice"]
           ELSE IF Len(loc.x_r) < 2 \/ Len(loc.y_r) < 2
           THEN [loc EXCEPT !.pc = "done",
                            !.res = Raised([type |-> "IndexError", token |-> <<>>,
                                            accepted |-> {}])]
           ELSE [loc EXCEPT !.pc = "slice",
                            !.x_r = calculate_pixel_edges(loc.x_r),
                            !.y_r = calculate_pixel_edges(loc.y_r)]
      [] loc.pc = "slice" ->
           [loc EXCEPT !.pc = "errstate",
                       !.x_r = IF loc.step[2] > 1 THEN Stride(loc.x_r, loc.step[2])
                               ELSE loc.x_r,
                       !.y_r = IF loc.step[1] > 1 THEN Stride(loc.y_r, loc.step[1])
                               ELSE loc.y_r]
      [] loc.pc = "errstate" ->
           [loc EXCEPT !.pc = "backend", !.saved = loc.mode, !.mode = "ignore"]
      [] loc.pc = "backend" ->
           LET grid == calculate_latlon_grid_goesdr(rec, loc.x_r, loc.y_r)
           IN  IF loc.mode = "raise" /\ Invalid(grid)
               THEN [loc EXCEPT !.pc = "done", !.mode = loc.saved,
                                !.res = Raised([type |-> "FloatingPointError",
                                                token |-> <<>>, accepted |-> {}])]
               ELSE [loc EXCEPT !.pc = "restore", !.grid = grid]
      [] loc.pc = "restore" ->
           [loc EXCEPT !.pc = "masked", !.mode = loc.saved]
      [] loc.pc = "masked" ->
           [loc EXCEPT !.pc = "done", !.res = Result(NoError, loc.grid)]

InitThreads ==
    /\ record \in [Threads -> RunRecords]
    /\ record[1] # record[2]
    /\ call \in [Threads -> Invocations]
    /\ out = [t \in Threads |-> NoResult]

\* A statement of thread t with the error mode kept in one place for all
\* threads
ThreadStep_SharedMode(t) ==
    /\ call[t].pc # "done"
    /\ LET new == Advance([call[t] EXCEPT !.mode = call[1].mode], record[t])
       IN  /\ call' = [u \in Threads |->
                         IF u = t THEN new ELSE [call[u] EXCEPT !.mode = new.mode]]
           /\ out' = [out EXCEPT ![t] = new.res]
    /\ UNCHANGED record

\* Thread t executes its next statement
ThreadStep(t) ==
    /\ call[t].pc # "done"
    /\ LET new == Advance(call[t], record[t])
       IN  /\ call' = [call EXCEPT ![t] = new]
           /\ out' = [out EXCEPT ![t] = new.res]
    /\ UNCHANGED record

NextThreads == \E t \in Threads : ThreadStep(t)

SpecThreads == InitThreads /\ [][NextThreads]_vars

(***************************************************************************)
(* netcdf/fields.py: VariableProxy.array and the VariableField it makes.   *)
(* An entry is None or a string.                                           *)
(***************************************************************************)
None == [none |-> TRUE, s |-> ""]

Str(s) == [none |-> FALSE, s |-> s]

ARRAY_PREFIX == "array:"

ARRAY == "array:*"

DATA == "array:data"

NODATA == "array:fill_value"

MASK == "array:mask"

\* VariableProxy(id).array(entry): the field made, or the error raised
array(id, entry) ==
    IF entry \notin {Str("*"), Str("data"), Str("mask"), Str("flll_value"), None}
    THEN [err |-> ValueError(<<entry.s>>, {"*", "data", "mask", "fill_value"}),
          id |-> id, entry |-> ""]
    ELSE [err |-> NoError, id |-> id,
          entry |-> ARRAY_PREFIX \o (IF entry.none THEN "data" ELSE entry.s)]

\* VariableField._extract_array on the array the filter returns
_extract_array(variable_, entry) ==
    CASE variable_.masked /\ entry = DATA   -> [err |-> "none", value |-> variable_.data]
      [] variable_.masked /\ entry = MASK   -> [err |-> "none", value |-> variable_.mask]
      [] variable_.masked /\ entry = NODATA -> [err |-> "none", value |-> variable_.fill_value]
      [] entry = ARRAY -> [err |-> "none", value |-> variable_.data]
      [] OTHER -> [err |-> "AttributeError", value |-> <<>>]

\* VariableField._get_variable: AttributeError is raised again as ValueError
_get_variable(dataset, id, entry) ==
    IF id \notin DOMAIN dataset THEN [err |-> "KeyError", value |-> <<>>]
    ELSE LET value_ == _extract_array(dataset[id], entry)
         IN  IF value_.err = "AttributeError"
             THEN [err |-> "ValueError", value |-> <<>>]
             ELSE value_

\* The variables of a dataset: read as a masked array or as a plain one
FieldDatasets ==
    {[CMI |-> [masked |-> m, data |-> d, mask |-> <<FALSE, TRUE>>, fill_value |-> 65535]] :
        m \in BOOLEAN, d \in {<<7, 65535>>, <<0, 65535>>}}

EntryNames ==
    {None, Str("data"), Str("mask"), Str("fill_value"), Str("*"),
     Str("flll_value"), Str(""), Str("DATA"), Str("array:data"), Str("values")}

InitField ==
    /\ record \in FieldDatasets
    /\ call = NoCall
    /\ out = GridOut(NoResult)

\* A view class is declared with VariableProxy(id).array(entry)
ProxyArray ==
    /\ call.op = "none"
    /\ \E id \in {"CMI", "DQF"}, entry \in EntryNames :
        /\ call' = [op |-> "array", id |-> id, entry |-> entry]
        /\ out' = array(id, entry)
    /\ UNCHANGED record

\* The field made is read from the dataset: VariableField.__call__
FieldCall ==
    /\ call.op = "array"
    /\ out.err.type = "none"
    /\ call' = [call EXCEPT !.op = "__call__"]
    /\ out' = _get_variable(record, out.id, out.entry)
    /\ UNCHANGED record

NextField == ProxyArray \/ FieldCall \/ Return

SpecField == InitField /\ [][NextField]_vars

(***************************************************************************)
(* grid/grid_fast.py: the two mirror reconstructions on their own          *)
(***************************************************************************)
MaxQuadrant == 3

\* Northeast quadrants of q rows and q columns: every cell holds a value of
\* its own, or all but one do and that one is NaN
Quadrants ==
    {[i \in 1..q |-> [j \in 1..q |->
        IF <<i, j>> = h THEN NaN ELSE Fin(b + 10 * i + j)]] :
            q \in 1..MaxQuadrant, b \in {-900, -200, -11, 0, 100, 450, 700, 1300},
            h \in {<<0, 0>>, <<1, 1>>, <<1, MaxQuadrant>>, <<2, 1>>, <<MaxQuadrant, 2>>}}

\* _reconstruct_lat_grid and _reconstruct_lon_grid on one quadrant
Reconstruct ==
    /\ call.op = "none"
    /\ \E northeast_grid \in Quadrants, odd_size \in BOOLEAN :
        /\ call' = [op |-> "reconstruct", northeast_grid |-> northeast_grid,
                    odd_size |-> odd_size]
        /\ out' = [lat |-> _reconstruct_lat_grid(northeast_grid, odd_size),
                   lon |-> _reconstruct_lon_grid(northeast_grid, odd_size)]
    /\ UNCHANGED record

NextMirror == Reconstruct \/ Return

SpecMirror == InitParse /\ [][NextMirror]_vars

(***************************************************************************)
(* grid/grid_helper.py: the corners of a precomputed grid                  *)
(***************************************************************************)
\* 0.5 * a
Half(a) == Only({IF IsFin(x) THEN Fin(RDiv(x.v, 2)) ELSE x : x \in {a}})

\* 3 * a
Triple(a) == FAdd(a, FAdd(a, a))

\* where(cond, a, nan) with cond = a < -400.0 negated
Remask(a) == IF FLt(a, Fin(-400 * Scale)) THEN NaN ELSE a

\* One cell of _midpoint_in_x / _midpoint_in_y: grid is the cell, next the
\* one after it (right, lower), prev_1 and prev_2 the two before it
\* (left_1 and left_2, upper_1 and upper_2)
midpoint(grid, next, prev_1, prev_2, fill_value) ==
    LET cond_1 == FGt(grid, Fin(-400 * Scale))
        cond_2 == FLt(grid, Fin(-400 * Scale))
        cond_3 == FLt(prev_1, Fin(-400 * Scale))
        cond_4 == FGt(prev_1, Fin(-400 * Scale))
    IN  IF cond_2 /\ cond_4 THEN Half(FSub(Triple(prev_1), prev_2))
        ELSE IF cond_1 /\ cond_4 THEN Half(FAdd(grid, prev_1))
        ELSE IF cond_1 /\ cond_3 THEN Half(FSub(Triple(grid), next))
        ELSE fill_value

\* Element k (from 1) of the vector v, the fill value outside it
Padded(v, k, fill_value) == IF k \in 1..Len(v) THEN v[k] ELSE fill_value

\* _midpoint_in_x with the local fill_value as a parameter
MidpointInX(grid, fill_value) ==
    [i \in 1..Len(grid) |-> [j \in 1..(Len(grid[i]) + 1) |->
        midpoint(Padded(grid[i], j, fill_value), Padded(grid[i], j + 1, fill_value),
                 Padded(grid[i], j - 1, fill_value), Padded(grid[i], j - 2, fill_value),
                 fill_value)]]

\* numpy.transpose of a grid with at least one row
Transpose(g) == [j \in 1..Len(g[1]) |-> [i \in 1..Len(g) |-> g[i][j]]]

\* _midpoint_in_y with the local fill_value as a parameter: the same
\* statements as _midpoint_in_x with rows for columns
MidpointInY(grid, fill_value) == Transpose(MidpointInX(Transpose(grid), fill_value))

_midpoint_in_x(grid) == MidpointInX(grid, Fin(-999990))

_midpoint_in_y(grid) == MidpointInY(grid, Fin(-999990))

\* calculate_pixel_corners with the fill value of the two passes as a
\* parameter
PixelCornersWith(lat, lon, fill_value) ==
    [lat |-> MapGrid(AsFloat32,
                MapGrid(Remask, MidpointInX(MidpointInY(lat, fill_value), fill_value))),
     lon |-> MapGrid(AsFloat32,
                MapGrid(Remask, MidpointInY(MidpointInX(lon, fill_value), fill_value)))]

calculate_pixel_corners(lat, lon) == PixelCornersWith(lat, lon, Fin(-999990))

MaxSide == 3

\* How an invalid cell of a precomputed grid is stored: the fill value of
\* the file (as float32) or NaN
InvalidMarks == {AsFloat32(FILL_VALUE), NaN}

\* Precomputed grids of up to MaxSide rows and columns with any pattern of
\* valid cells; spacing is not uniform, every value a multiple of 0.016
CornerGrids ==
    {[lat |-> [i \in 1..r |-> [j \in 1..c |->
                 IF <<i, j>> \in valid
                 THEN Fin(16 * (3000 - 130 * i - 7 * i * i + 3 * j)) ELSE mark]],
      lon |-> [i \in 1..r |-> [j \in 1..c |->
                 IF <<i, j>> \in valid
                 THEN Fin(16 * (110 * j + 5 * j * j - 2 * i - 5000)) ELSE mark]]] :
        r \in 1..MaxSide, c \in 1..MaxSide,
        valid \in SUBSET ((1..MaxSide) \X (1..MaxSide)), mark \in InvalidMarks}

\* calculate_pixel_corners(lat, lon); the result of the first pass of each
\* grid is kept with the result
PixelCorners ==
    /\ call.op = "none"
    /\ \E g \in CornerGrids :
        /\ call' = [op |-> "corners", lat |-> g.lat, lon |-> g.lon]
        /\ out' = [res |-> calculate_pixel_corners(g.lat, g.lon),
                   lat_y |-> _midpoint_in_y(g.lat),
                   lon_x |-> _midpoint_in_x(g.lon)]
    /\ UNCHANGED record

NextCorners == PixelCorners \/ Return

SpecCorners == InitParse /\ [][NextCorners]_vars

(***************************************************************************)
(* Properties                                                              *)
(***************************************************************************)
Returned == out.res.err.type = "none"

GridCall == call.op \in {"calculate", "fast", "opti", "noaa"} /\ Returned

CeilDiv(a, b) == (a + b - 1) \div b

\* The step of the call as a pair
StepPair == IF Len(call.step) = 1 THEN <<call.step[1], call.step[1]>> ELSE call.step

\* Two values agree within 1e-5 degrees (NaN agrees with NaN only)
Close(a, b) ==
    \/ IsNaN(a) /\ IsNaN(b)
    \/ IsInf(a) /\ a = b
    \/ IsFin(a) /\ IsFin(b) /\ Abs(a.v - b.v) <= Scale \div 100000

CloseGrids(g, h) ==
    /\ Shape(g) = Shape(h)
    /\ \A i \in 1..Rows(g) : \A j \in 1..Cols(g) : Close(g[i][j], h[i][j])

\* C1: in every grid a backend returns (direct, reference, library-backed,
\* symmetry-accelerated), a cell's latitude is NaN iff its longitude is NaN.
C1_PairwiseNaN ==
    GridCall =>
        /\ Shape(out.res.lat) = Shape(out.res.lon)
        /\ \A i \in 1..Rows(out.res.lat) : \A j \in 1..Cols(out.res.lat) :
              IsNaN(out.res.lat[i][j]) <=> IsNaN(out.res.lon[i][j])

\* A library-backed grid whose first cell came back with a valid longitude
\* and a NaN latitude: both are NaN in the result, and another cell is valid.
C1_Witness ==
    /\ call.op = "calculate" /\ Returned
    /\ call.anomaly.val = <<Fin(0), NaN>>
    /\ IsNaN(out.res.lat[1][1]) /\ IsNaN(out.res.lon[1][1])
    /\ \E i \in 1..Rows(out.res.lat) : \E j \in 1..Cols(out.res.lat) :
          IsFin(out.res.lat[i][j]) /\ IsFin(out.res.lon[i][j])

\* C2: the symmetry-accelerated grid equals the directly computed grid of
\* the same dataset, cell for cell, within 1e-5 degrees.
C2_FastEqualsDirect ==
    (call.op = "fast" /\ Returned) =>
        LET direct == calculate_latlon_grid_opti(record)
        IN  /\ CloseGrids(out.res.lat, direct.lat)
            /\ CloseGrids(out.res.lon, direct.lon)

\* C3: the direct path with step (r, c) returns ceil(m/r) x ceil(n/c) cells,
\* and cell [i][j] is cell [r*i][c*j] of the grid computed without stepping.
C3_StepSubset ==
    (call.op = "calculate" /\ call.algorithm = <<"goesdr">> /\ Returned) =>
        LET r == StepPair[1]
            c == StepPair[2]
        IN  /\ Shape(out.res.lat) = <<CeilDiv(Len(record.y), r), CeilDiv(Len(record.x), c)>>
            /\ Shape(out.res.lon) = Shape(out.res.lat)
            /\ \A full \in {calculate(record, <<"goesdr">>, <<1, 1>>, TRUE, NoAnomaly)} :
               \A i \in 1..Rows(out.res.lat) : \A j \in 1..Cols(out.res.lat) :
                  /\ out.res.lat[i][j] = full.lat[r * (i - 1) + 1][c * (j - 1) + 1]
                  /\ out.res.lon[i][j] = full.lon[r * (i - 1) + 1][c * (j - 1) + 1]

\* Step (2, 2) on a 3 x 3 grid: a 2 x 2 grid with a valid cell.
C3_Witness ==
    /\ call.op = "calculate" /\ call.algorithm = <<"goesdr">> /\ Returned
    /\ call.step = <<2, 2>>
    /\ Len(record.x) = 3 /\ Len(record.y) = 3
    /\ Shape(out.res.lat) = <<2, 2>>
    /\ IsFin(out.res.lat[2][2])

\* C4: with corners the n centers become n + 1 edges before the step is
\* applied: the shape is (ceil((len(y)+1)/r), ceil((len(x)+1)/c)) with
\* corners and (ceil(len(y)/r), ceil(len(x)/c)) without, and the stepped
\* grid is the stride subset of the unstepped grid of the same mode.
C4_EdgesThenStep ==
    (call.op = "calculate" /\ Returned) =>
        LET r == StepPair[1]
            c == StepPair[2]
            a == _parse_algorithm(call.algorithm)
            extra == IF a.corner THEN 1 ELSE 0
        IN  /\ Shape(out.res.lat) = <<CeilDiv(Len(record.y) + extra, r),
                                      CeilDiv(Len(record.x) + extra, c)>>
            /\ Shape(out.res.lon) = Shape(out.res.lat)
            /\ call.anomaly = NoAnomaly =>
                 \A full \in {calculate(record, call.algorithm, <<1, 1>>,
                                         call.importable, NoAnomaly)} :
                 \A i \in 1..Rows(out.res.lat) : \A j \in 1..Cols(out.res.lat) :
                    /\ out.res.lat[i][j] = full.lat[r * (i - 1) + 1][c * (j - 1) + 1]
                    /\ out.res.lon[i][j] = full.lon[r * (i - 1) + 1][c * (j - 1) + 1]

\* Corners of a 3 x 3 dataset with step (2, 2): 4 edges per axis, 2 kept.
C4_Witness ==
    /\ call.op = "calculate" /\ Returned
    /\ call.algorithm = <<"goesdr", "[", "corner", "]">>
    /\ call.step = <<2, 2>>
    /\ Len(record.x) = 3 /\ Len(record.y) = 3
    /\ Shape(out.res.lat) = <<2, 2>>

\* C5: _parse_step expands the int s to (s, s); a step with a component
\* <= 0 raises ValueError naming the step; a step with both components > 0
\* is returned unchanged.
C5_ParseStep ==
    call.op = "parse_step" =>
        LET e == out.stp.err
        IN  IF StepPair[1] <= 0 \/ StepPair[2] <= 0
            THEN e.type = "ValueError" /\ e.token = StepPair
            ELSE e.type = "none" /\ out.stp.step = StepPair

\* The int 0 is expanded to (0, 0) and rejected.
C5_Witness ==
    /\ call.op = "parse_step"
    /\ call.step = <<0>>
    /\ out.stp.err.type = "ValueError"
    /\ out.stp.err.token = <<0, 0>>

\* The strings "name" and "name[option]" with an accepted name and option
WellFormed(algorithm) ==
    \/ Len(algorithm) = 1 /\ algorithm[1] \in Names
    \/ /\ Len(algorithm) = 4
       /\ algorithm[1] \in Names /\ algorithm[2] = "["
       /\ algorithm[3] \in Options /\ algorithm[4] = "]"

\* C6: _parse_algorithm accepts exactly the strings name and name[option]
\* with an accepted name and option, and returns (name, corner) with
\* corner true iff the option is "corner".
C6_AcceptsExactly ==
    call.op = "parse_algorithm" =>
        /\ out.alg.err.type = "none" <=> WellFormed(call.algorithm)
        /\ out.alg.err.type = "none" =>
              /\ out.alg.name = <<call.algorithm[1]>>
              /\ out.alg.corner <=>
                    (Len(call.algorithm) = 4 /\ call.algorithm[3] = "corner")

\* C7: a string name or name[option] with an unknown name raises ValueError
\* naming the name and the accepted names, whatever the option is; with an
\* accepted name and an unknown option it raises ValueError naming the
\* option and the accepted options.
C7_RejectsUnknown ==
    (/\ call.op = "parse_algorithm"
     /\ Len(call.algorithm) \in {1, 4}
     /\ call.algorithm[1] \in WordAtoms
     /\ Len(call.algorithm) = 4 =>
           /\ call.algorithm[2] = "[" /\ call.algorithm[4] = "]"
           /\ call.algorithm[3] \in WordAtoms) =>
        LET e == out.alg.err
            name == call.algorithm[1]
        IN  /\ name \notin Names =>
                 e.type = "ValueError" /\ e.token = <<name>> /\ e.accepted = Names
            /\ (/\ name \in Names
                /\ Len(call.algorithm) = 4
                /\ call.algorithm[3] \notin Options) =>
                 /\ e.type = "ValueError"
                 /\ e.token = <<call.algorithm[3]>>
                 /\ e.accepted = Options

\* "bogus[option]" is rejected with the error that names "bogus".
C7_Witness ==
    /\ call.op = "parse_algorithm"
    /\ call.algorithm = <<"bogus", "[", "option", "]">>
    /\ out.alg.err.type = "ValueError"
    /\ out.alg.err.token = <<"bogus">>
    /\ out.alg.err.accepted = {"cartopy", "goesdr", "pyproj"}

EdgesCall == call.op = "edges" /\ Returned /\ Len(call.centers) >= 2

\* C8: calculate_pixel_edges returns n + 1 edges for n >= 2 centers, and
\* the interior edge k is the midpoint of centers k-1 and k.
C8_InteriorMidpoints ==
    EdgesCall =>
        LET c == call.centers
            n == Len(c)
        IN  /\ Len(out.edges) = n + 1
            /\ \A k \in 2..n :
                  /\ IsFin(out.edges[k])
                  /\ 2 * out.edges[k].v = c[k - 1].v + c[k].v

\* Three centers give four edges.
C8_Witness ==
    /\ EdgesCall
    /\ Len(call.centers) = 3
    /\ Len(out.edges) = 4
    /\ 2 * out.edges[2].v = call.centers[1].v + call.centers[2].v

\* C9 as stated: the first edge is 2*centers[0] - centers[1] and the last
\* edge is 2*centers[-1] - centers[-2].
C9_OuterEdgesAsStated ==
    EdgesCall =>
        LET c == call.centers
            n == Len(c)
        IN  /\ out.edges[1].v = 2 * c[1].v - c[2].v
            /\ out.edges[n + 1].v = 2 * c[n].v - c[n - 1].v

\* C9 amended: the first edge is the midpoint of centers[0] and the
\* extrapolated center 2*centers[0] - centers[1], that is
\* (3*centers[0] - centers[1]) / 2; the last edge is
\* (3*centers[-1] - centers[-2]) / 2.
C9_OuterEdges ==
    EdgesCall =>
        LET c == call.centers
            n == Len(c)
        IN  /\ IsFin(out.edges[1]) /\ IsFin(out.edges[n + 1])
            /\ 2 * out.edges[1].v = 3 * c[1].v - c[2].v
            /\ 2 * out.edges[n + 1].v = 3 * c[n].v - c[n - 1].v

\* Centers [-0.01, 0.01]: the edges are [-0.02, 0, 0.02].
C9_Witness ==
    /\ EdgesCall
    /\ call.centers = <<Fin(-10), Fin(10)>>
    /\ out.edges = <<Fin(-20), Fin(0), Fin(20)>>

\* The centers are uniformly spaced with spacing d
Uniform(c, d) == \A k \in 2..Len(c) : c[k].v - c[k - 1].v = d

\* C10: on uniformly spaced centers with spacing d every interior edge lies
\* exactly d/2 from each of its two neighbouring centers.
C10_HalfSpacing ==
    EdgesCall =>
        LET c == call.centers
            d == c[2].v - c[1].v
        IN  Uniform(c, d) =>
              \A k \in 2..Len(c) :
                  /\ 2 * (out.edges[k].v - c[k - 1].v) = d
                  /\ 2 * (c[k].v - out.edges[k].v) = d

\* Three centers with spacing 0.01: both interior edges lie 0.005 away.
C10_Witness ==
    /\ EdgesCall
    /\ Len(call.centers) = 3
    /\ Uniform(call.centers, 10)
    /\ out.edges[2].v - call.centers[1].v = 5
    /\ call.centers[3].v - out.edges[3].v = 5


\* A call of one of the maskers has returned
MaskerCalled(op) == call.op = op

\* C11: make_common_mask keeps a cell (both values unchanged) if and only if
\* its latitude and its longitude are both finite; every other cell, one
\* holding an infinity included, is NaN in both arrays.
C11_MaskKeepsFiniteOnly ==
    MaskerCalled("make_common_mask") =>
        \A k \in 1..Len(call.abi_lat) :
            IF IsFin(call.abi_lat[k]) /\ IsFin(call.abi_lon[k])
            THEN out.lat[k] = call.abi_lat[k] /\ out.lon[k] = call.abi_lon[k]
            ELSE IsNaN(out.lat[k]) /\ IsNaN(out.lon[k])

\* A finite value of at least lo and at most hi degrees
InRange(a, lo, hi) == IsFin(a) /\ lo * Scale <= a.v /\ a.v <= hi * Scale

\* C12: make_consistent keeps a cell valid exactly when its longitude lies
\* in [-360, 360] and its latitude in [-90, 90], limits included; a cell
\* failing either test (NaN and the infinities fail both) is NaN in both
\* the latitude and the longitude returned.
C12_RangeTests ==
    MaskerCalled("make_consistent") =>
        \A k \in 1..Len(call.abi_lat) :
            IF InRange(call.abi_lon[k], -360, 360) /\ InRange(call.abi_lat[k], -90, 90)
            THEN ~IsNaN(out.lat[k]) /\ ~IsNaN(out.lon[k])
            ELSE IsNaN(out.lat[k]) /\ IsNaN(out.lon[k])

\* A cell on the limits (360, 90) is kept beside a cell with an infinite
\* longitude, which is masked in both arrays.
C12_Witness ==
    /\ MaskerCalled("make_consistent")
    /\ call.abi_lon[1] = Fin(360 * Scale) /\ call.abi_lat[1] = Fin(90 * Scale)
    /\ out.lat[1] = Fin(90 * Scale) /\ IsFin(out.lon[1])
    /\ call.abi_lon[2] = PosInf /\ call.abi_lat[2] = Fin(45 * Scale)
    /\ IsNaN(out.lat[2]) /\ IsNaN(out.lon[2])

\* C13 (as stated): every valid longitude a library-backed backend returns
\* satisfies -180 < lon <= 180, for every input longitude in [-360, 360].
C13_HalfOpenAbove ==
    MaskerCalled("library") =>
        \A k \in 1..Len(call.abi_lon) :
            (InRange(call.abi_lon[k], -360, 360) /\ ~IsNaN(out.lon[k])) =>
                /\ IsFin(out.lon[k])
                /\ -180 * Scale < out.lon[k].v /\ out.lon[k].v <= 180 * Scale

\* C13: every valid longitude a library-backed backend returns satisfies
\* -180 <= lon <= 180; make_consistent itself returns -180 <= lon < 180
\* (-180 is returned for the inputs 180 and -180), and the conversion to
\* 32 bits may round a longitude just below 180 up to 180.
C13_LongitudeRange ==
    /\ MaskerCalled("library") =>
        \A k \in 1..Len(call.abi_lon) :
            (InRange(call.abi_lon[k], -360, 360) /\ ~IsNaN(out.lon[k])) =>
                /\ IsFin(out.lon[k])
                /\ -180 * Scale <= out.lon[k].v /\ out.lon[k].v <= 180 * Scale
    /\ MaskerCalled("make_consistent") =>
        \A k \in 1..Len(call.abi_lon) :
            (InRange(call.abi_lon[k], -360, 360) /\ ~IsNaN(out.lon[k])) =>
                /\ IsFin(out.lon[k])
                /\ -180 * Scale <= out.lon[k].v /\ out.lon[k].v < 180 * Scale

\* A library longitude of 180 beside a valid latitude comes out as -180.
C13_Witness ==
    /\ MaskerCalled("library")
    /\ call.abi_lon[1] = Fin(180 * Scale) /\ call.abi_lat[1] = Fin(45 * Scale)
    /\ out.lon[1] = Fin(-180 * Scale) /\ out.lat[1] = Fin(45 * Scale)

\* A library longitude just below 180 is rounded to 180 by the conversion.
C13_RoundedUp ==
    ~(/\ MaskerCalled("library")
      /\ IsFin(call.abi_lon[1]) /\ call.abi_lon[1].v < 180 * Scale
      /\ out.lon[1] = Fin(180 * Scale))

\* The cell k of the arguments passes both range tests of make_consistent
ValidCell(k) ==
    InRange(call.abi_lon[k], -360, 360) /\ InRange(call.abi_lat[k], -90, 90)

\* C14: in make_consistent a valid longitude of at least 180 has 360
\* subtracted, a valid longitude below -180 has 360 added, a valid longitude
\* in [-180, 180) is returned as it is; the longitude returned differs from
\* the argument by 0 or by exactly 360, and the latitude of a valid cell is
\* returned as it is.
C14_Normalization ==
    MaskerCalled("make_consistent") =>
        \A k \in 1..Len(call.abi_lon) :
            ValidCell(k) =>
                LET lon == call.abi_lon[k].v
                    res == out.lon[k]
                IN  /\ IsFin(res)
                    /\ lon >= 180 * Scale => res.v = lon - 360 * Scale
                    /\ lon < -180 * Scale => res.v = lon + 360 * Scale
                    /\ (-180 * Scale <= lon /\ lon < 180 * Scale) => res.v = lon
                    /\ res.v - lon \in {-360 * Scale, 0, 360 * Scale}
                    /\ out.lat[k] = call.abi_lat[k]

\* A longitude of 180 is returned as -180 and a latitude of 90 as 90: the
\* value -180 the first shift produces is not shifted back.
C14_Witness ==
    /\ MaskerCalled("make_consistent")
    /\ call.abi_lon[1] = Fin(180 * Scale) /\ call.abi_lat[1] = Fin(90 * Scale)
    /\ out.lon[1] = Fin(-180 * Scale) /\ out.lat[1] = Fin(90 * Scale)

\* C15: after from_file returns, the latitude data of a cell is NaN if and
\* only if its longitude data is NaN, whatever the two masks stored in the
\* file are.
C15_FilePairwiseNaN ==
    call.op = "from_file" =>
        \A i \in 1..Len(out.latitude.data) :
            \A j \in 1..Len(out.latitude.data[i]) :
                IsNaN(out.latitude.data[i][j]) <=> IsNaN(out.longitude.data[i][j])

\* The events of the call's trace, as a set
Events == {out.events[k] : k \in 1..Len(out.events)}

\* The call asks for a library-backed backend with a valid option and step
LibraryRequested ==
    /\ call.op = "calculate"
    /\ _parse_algorithm(call.algorithm).err.type = "none"
    /\ _parse_algorithm(call.algorithm).name[1] \in {"pyproj", "cartopy"}
    /\ StepPair[1] > 0 /\ StepPair[2] > 0

\* C16: a call for pyproj or cartopy with the library not installed fails
\* with an error that is not the error of a generic import failure, fails
\* before any dataset field is read or any value computed, and a call for
\* goesdr that follows it succeeds.
C16_MissingDependency ==
    /\ (LibraryRequested /\ call.lib = "absent") =>
        /\ ~Returned
        /\ out.res.err.type \notin ImportErrors
        /\ Events \cap (ReadEvents \cup ComputeEvents) = {}
    /\ (call.op = "calculate" /\ call.prev = "ImportError"
        /\ call.algorithm = <<"goesdr">>
        /\ StepPair[1] > 0 /\ StepPair[2] > 0) => Returned

CoreCells ==
    {<<i, j>> : i \in 1..Len(record.y), j \in 1..Len(record.x)}

\* C18: in the core transform a cell whose discriminant is negative is NaN
\* in latitude and in longitude, a cell whose discriminant is not negative
\* is NaN in neither, and the call returns the grid of all its cells
\* whatever the sign of their discriminants.
C18_Discriminant ==
    call.op = "transform" =>
        /\ Returned
        /\ Shape(out.res.lat) = <<Len(record.y), Len(record.x)>>
        /\ Shape(out.res.lon) = <<Len(record.y), Len(record.x)>>
        /\ \A ij \in CoreCells :
             LET disc == out.cells[ij[1]][ij[2]].disc
                 lat  == out.res.lat[ij[1]][ij[2]]
                 lon  == out.res.lon[ij[1]][ij[2]]
             IN  /\ IsFin(disc)
                 /\ disc.v < 0 => IsNaN(lat) /\ IsNaN(lon)
                 /\ disc.v >= 0 => ~IsNaN(lat) /\ ~IsNaN(lon)

\* A grid with a cell off the disk (negative discriminant, NaN) and a cell
\* on it (valid).
C18_Witness ==
    /\ call.op = "transform"
    /\ \E ij \in CoreCells :
         /\ out.cells[ij[1]][ij[2]].disc.v < 0
         /\ IsNaN(out.res.lat[ij[1]][ij[2]])
    /\ \E ij \in CoreCells :
         /\ out.cells[ij[1]][ij[2]].disc.v > 0
         /\ IsFin(out.res.lat[ij[1]][ij[2]]) /\ IsFin(out.res.lon[ij[1]][ij[2]])

\* The cells of the grid at scan angles x = 0, y = 0
NadirCells ==
    {ij \in CoreCells : record.y[ij[1]] = Fin(0) /\ record.x[ij[2]] = Fin(0)}

\* At x = 0, y = 0: r_s = r_orb - r_eq, s_y = s_z = 0 and latitude 0
NadirGeometry(ij) ==
    /\ out.cells[ij[1]][ij[2]].r_s =
           FSub(orbital_radius(record), record.semi_major_axis)
    /\ out.cells[ij[1]][ij[2]].s[2].v = 0
    /\ out.cells[ij[1]][ij[2]].s[3].v = 0
    /\ out.res.lat[ij[1]][ij[2]] = Fin(0)

\* C19 (as stated): at x = 0, y = 0 the transform gives r_s = r_orb - r_eq,
\* s_y = s_z = 0, latitude 0 and a longitude equal to
\* longitude_of_projection_origin.
C19_NadirExact ==
    call.op = "transform" =>
        \A ij \in NadirCells :
            /\ NadirGeometry(ij)
            /\ out.res.lon[ij[1]][ij[2]] = record.longitude_of_projection_origin

\* C19: at x = 0, y = 0 the transform gives r_s = r_orb - r_eq,
\* s_y = s_z = 0, latitude 0 and a longitude equal to
\* longitude_of_projection_origin as converted to 32 bits.
C19_Nadir ==
    call.op = "transform" =>
        \A ij \in NadirCells :
            /\ NadirGeometry(ij)
            /\ out.res.lon[ij[1]][ij[2]] =
                   AsFloat32(record.longitude_of_projection_origin)

\* A grid whose cell at x = 0, y = 0 is at latitude 0 and longitude -75,
\* the projection origin, with r_s the height of the satellite.
C19_Witness ==
    /\ call.op = "transform"
    /\ \E ij \in NadirCells :
         /\ out.res.lat[ij[1]][ij[2]] = Fin(0)
         /\ out.res.lon[ij[1]][ij[2]] = Fin(-75 * Scale)
         /\ out.cells[ij[1]][ij[2]].r_s = record.perspective_point_height

\* C21: a call of calculate for the direct backend, with the edges it
\* derives and the step slice it takes, leaves every field of the dataset
\* as it was: the four scalars, and x and y element by element.
C21_InputsUnchanged ==
    [][(call'.op = "calculate"
        /\ _parse_algorithm(call'.algorithm).err.type = "none"
        /\ _parse_algorithm(call'.algorithm).name[1] = "goesdr") =>
          /\ record'.perspective_point_height = record.perspective_point_height
          /\ record'.semi_major_axis = record.semi_major_axis
          /\ record'.semi_minor_axis = record.semi_minor_axis
          /\ record'.longitude_of_projection_origin =
                 record.longitude_of_projection_origin
          /\ Len(record'.x) = Len(record.x) /\ Len(record'.y) = Len(record.y)
          /\ \A k \in 1..Len(record.x) : record'.x[k] = record.x[k]
          /\ \A k \in 1..Len(record.y) : record'.y[k] = record.y[k]]_vars

\* The direct backend has returned the corners of a 2 x 3 dataset taken
\* with step 2: edges were derived and sliced.
C21_Witness ==
    /\ call.op = "calculate" /\ Returned
    /\ call.algorithm = <<"goesdr", "[", "corner", "]">>
    /\ call.step = <<2>>
    /\ Len(record.x) = 3 /\ Len(record.y) = 2
    /\ Shape(out.res.lat) = <<2, 2>>

\* C22: under every interleaving of the statements of two invocations on
\* different datasets, an invocation that has finished holds exactly the
\* grid (or the error) the same invocation gives when it runs alone.
C22_Independent ==
    \A t \in Threads :
        call[t].pc = "done" =>
            out[t] = _initialize_calculated(record[t], "goesdr", call[t].corners,
                                            call[t].step, TRUE, NoAnomaly)

\* Both invocations have finished, the first with a grid that has a cell
\* off the disk, in threads whose error mode is to raise.
C22_Witness ==
    /\ \A t \in Threads : call[t].pc = "done" /\ call[t].mode = "raise"
    /\ out[1].err.type = "none" /\ out[2].err.type = "none"
    /\ Invalid(out[1])

\* C23: VariableProxy.array accepts 'data' (and None, meaning 'data'),
\* 'mask', 'fill_value' and '*' and returns a field whose entry is
\* 'array:<entry>'; for any other entry it raises ValueError.
C23_AcceptsDocumented ==
    call.op = "array" =>
        IF call.entry \in {None, Str("data"), Str("mask"), Str("fill_value"), Str("*")}
        THEN /\ out.err.type = "none"
             /\ out.entry = ARRAY_PREFIX \o (IF call.entry.none THEN "data" ELSE call.entry.s)
        ELSE out.err.type = "ValueError"

\* The side of the grid rebuilt from the quadrant of the call
MirrorSide == 2 * Len(call.northeast_grid) - (IF call.odd_size THEN 1 ELSE 0)

\* C24: from a quadrant of q rows and q columns both reconstructions give a
\* grid of n rows and n columns (n = 2q - 1 for odd sizes, 2q for even ones)
\* with the quadrant at rows 0..q-1, columns n-q..n-1; latitude is equal
\* across the vertical axis and opposite across the horizontal one,
\* longitude equal across the horizontal axis and opposite across the
\* vertical one (a NaN mirrors a NaN), outside the shared row and column.
C24_MirrorReconstruction ==
    call.op = "reconstruct" =>
        LET n == MirrorSide
            q == Len(call.northeast_grid)
        IN  /\ Shape(out.lat) = <<n, n>> /\ Shape(out.lon) = <<n, n>>
            /\ \A i \in 1..q : \A j \in 1..q :
                /\ out.lat[i][n - q + j] = call.northeast_grid[i][j]
                /\ out.lon[i][n - q + j] = call.northeast_grid[i][j]
            /\ \A i \in 1..n : \A j \in 1..n :
                /\ out.lat[i][j] = out.lat[i][n + 1 - j]
                /\ i # n + 1 - i => out.lat[i][j] = FNeg(out.lat[n + 1 - i][j])
                /\ out.lon[i][j] = out.lon[n + 1 - i][j]
                /\ j # n + 1 - j => out.lon[i][j] = FNeg(out.lon[i][n + 1 - j])

\* A grid of five rows and columns rebuilt from a quadrant of three, with
\* values that are not symmetric by themselves
C24_Witness ==
    /\ call.op = "reconstruct" /\ call.odd_size
    /\ Len(call.northeast_grid) = MaxQuadrant /\ MirrorSide = 2 * MaxQuadrant - 1
    /\ call.northeast_grid[1][1] = Fin(111)
    /\ out.lat[2 * MaxQuadrant - 1][1] = Fin(-100 - 10 - MaxQuadrant)

\* A value above the threshold of calculate_pixel_corners
Usable(a) == IsFin(a) /\ a.v > -400 * Scale

\* Cell (i, j) of a grid; a cell off the grid is invalid
CellAt(g, i, j) == IF i \in 1..Len(g) /\ j \in 1..Len(g[1]) THEN g[i][j] ELSE NaN

\* The edge e between the cells prev and cur of one axis, next following
\* cur and prev2 preceding prev: the midpoint of two valid cells, else
\* twice the valid cell minus the next midpoint on its valid side
AxisRule(e, cur, next, prev, prev2) ==
    /\ Usable(cur) /\ Usable(prev) => e = Half(FAdd(cur, prev))
    /\ Usable(cur) /\ ~Usable(prev) /\ Usable(next) =>
           e = FSub(FAdd(cur, cur), Half(FAdd(cur, next)))
    /\ ~Usable(cur) /\ Usable(prev) /\ Usable(prev2) =>
           e = FSub(FAdd(prev, prev), Half(FAdd(prev, prev2)))

\* C25: calculate_pixel_corners on a grid of R rows and C columns returns
\* grids of R + 1 rows and C + 1 columns; along each axis the edge between
\* two valid cells is their midpoint and an edge at the boundary or next to
\* an invalid neighbor is twice the valid cell minus the next midpoint on
\* its valid side; no result is below -400; a corner whose four surrounding
\* cells are valid is the mean of the four.
C25_CornerApproximation ==
    call.op = "corners" =>
        LET R == Len(call.lat)
            C == Len(call.lat[1])
        IN  /\ Shape(out.res.lat) = <<R + 1, C + 1>>
            /\ Shape(out.res.lon) = <<R + 1, C + 1>>
            /\ \A i \in 1..(R + 1) : \A j \in 1..C :
                 AxisRule(out.lat_y[i][j], CellAt(call.lat, i, j), CellAt(call.lat, i + 1, j),
                          CellAt(call.lat, i - 1, j), CellAt(call.lat, i - 2, j))
            /\ \A i \in 1..R : \A j \in 1..(C + 1) :
                 AxisRule(out.lon_x[i][j], CellAt(call.lon, i, j), CellAt(call.lon, i, j + 1),
                          CellAt(call.lon, i, j - 1), CellAt(call.lon, i, j - 2))
            /\ \A i \in 1..(R + 1) : \A j \in 1..(C + 1) :
                 /\ ~FLt(out.res.lat[i][j], Fin(-400 * Scale))
                 /\ ~FLt(out.res.lon[i][j], Fin(-400 * Scale))
                 /\ \A g \in {<<call.lat, out.res.lat>>, <<call.lon, out.res.lon>>} :
                      (\A a \in {i - 1, i}, b \in {j - 1, j} : Usable(CellAt(g[1], a, b))) =>
                          g[2][i][j] = AsFloat32(Fin(RDiv(g[1][i - 1][j - 1].v + g[1][i - 1][j].v
                                                          + g[1][i][j - 1].v + g[1][i][j].v, 4)))

\* The grid g with its invalid cells that hold the fill value holding the
\* value fill_value instead
Remarked(g, fill_value) ==
    [i \in 1..Len(g) |-> [j \in 1..Len(g[i]) |->
        IF g[i][j] = AsFloat32(FILL_VALUE) THEN fill_value ELSE g[i][j]]]

\* C26: the sentinel never contributes to a corner reported as valid: a
\* corner that is not NaN has the value it would have with any other
\* sentinel below the threshold in place of -999.99.
C26_SentinelNeverContributes ==
    call.op = "corners" =>
        \A other \in {PixelCornersWith(Remarked(call.lat, Fin(-800 * Scale)),
                                       Remarked(call.lon, Fin(-800 * Scale)),
                                       Fin(-800 * Scale))} :
            \A i \in 1..Len(out.res.lat) : \A j \in 1..Len(out.res.lat[i]) :
                /\ IsFin(out.res.lat[i][j]) => out.res.lat[i][j] = other.lat[i][j]
                /\ IsFin(out.res.lon[i][j]) => out.res.lon[i][j] = other.lon[i][j]

\* C27: the grid of calculate_latlon_grid_fast does not depend on the y of
\* the dataset: with the same x and scalars and any other y, of the same
\* length or not, it is the same grid, of len(x) rows and len(x) columns.
C27_FastIgnoresY ==
    call.op = "fast" =>
        /\ Shape(out.res.lat) = <<Len(record.x), Len(record.x)>>
        /\ Shape(out.res.lon) = <<Len(record.x), Len(record.x)>>
        /\ \A other \in {calculate_latlon_grid_fast([record EXCEPT !.y = y]) :
                            y \in YVectors \cup {Reverse(record.x)}} :
               other.lat = out.res.lat /\ other.lon = out.res.lon

\* The fast path has answered for a dataset with three columns and two rows
C27_Witness ==
    /\ call.op = "fast" /\ Returned
    /\ Len(record.x) = 3 /\ Len(record.y) = 2
    /\ Shape(out.res.lat) = <<3, 3>>

\* x[i] = -x[n-1-i] for every i
SymmetricAboutZero(x) == \A i \in 1..Len(x) : x[i] = FNeg(x[Len(x) + 1 - i])

\* C28: for a dataset whose x is symmetric about zero and whose y is x
\* reversed, of even or odd length, the grid of calculate_latlon_grid_fast
\* equals the directly computed grid cell for cell.
C28_FastEqualsDirectOnSymmetric ==
    (call.op = "fast" /\ SymmetricAboutZero(record.x)
     /\ record.y = Reverse(record.x)) =>
        \A direct \in {calculate_latlon_grid_opti(record)} :
            /\ Shape(out.res.lat) = Shape(direct.lat)
            /\ Shape(out.res.lon) = Shape(direct.lon)
            /\ \A i \in 1..Len(direct.lat) : \A j \in 1..Len(direct.lat[i]) :
                /\ out.res.lat[i][j] = direct.lat[i][j]
                /\ out.res.lon[i][j] = direct.lon[i][j]

\* The fast path has answered for a symmetric dataset of odd length, with
\* cells on and off the disk
C28_Witness ==
    /\ call.op = "fast" /\ Returned
    /\ record.x = <<Fin(-140), Fin(0), Fin(140)>>
    /\ record.y = Reverse(record.x)
    /\ IsFin(out.res.lat[1][2]) /\ out.res.lat[1][2] # Fin(0)
    /\ out.res.lat[1][2] = FNeg(out.res.lat[3][2])

\* The same for a dataset of even length
C28_WitnessEven ==
    /\ call.op = "fast" /\ Returned
    /\ record.x = <<Fin(10), Fin(-10)>>
    /\ record.y = Reverse(record.x)
    /\ IsFin(out.res.lon[1][1]) /\ out.res.lon[1][1] # out.res.lon[1][2]

\* a comes strictly before b in the direction of the centers c
Before(a, b, c) == IF FLt(c[1], c[2]) THEN FLt(a, b) ELSE FGt(a, b)

\* C29: for strictly monotonic centers, two or more, the edges of
\* calculate_pixel_edges are strictly monotonic in the same direction and
\* center i lies strictly between edge i and edge i + 1.
C29_EdgesBracketCenters ==
    EdgesCall =>
        \A k \in 1..Len(call.centers) :
            /\ Before(out.edges[k], out.edges[k + 1], call.centers)
            /\ Before(out.edges[k], call.centers[k], call.centers)
            /\ Before(call.centers[k], out.edges[k + 1], call.centers)

\* Edges have been derived from three descending centers of uneven spacing
C29_Witness ==
    /\ EdgesCall
    /\ call.centers = <<Fin(140), Fin(10), Fin(-10)>>
    /\ out.edges = <<Fin(205), Fin(75), Fin(0), Fin(-20)>>

\* C30: from_file called with a step that has a component of zero or less
\* raises the error calculate raises for that step (the ValueError of
\* _parse_step naming the step) and returns no grid.
C30_FromFileRejectsStep ==
    (call.op = "from_file" /\ \E k \in 1..Len(call.step) : call.step[k] <= 0) =>
        /\ out.err = _parse_step(call.step).err
        /\ out.latitude.data = NoGrid /\ out.longitude.data = NoGrid
====
